---- MODULE Spec2Model ----
(***************************************************************************)
(* A model of the scene-graph node engine of ViroRenderer (VRONode.cpp)    *)
(* and of the FBX loader's use of it (VROFBXLoader.cpp).                   *)
(*                                                                         *)
(* The module holds several specifications over one set of variables:      *)
(*   SpecGraph   parent/child structure, scene membership, physics bodies  *)
(*   SpecVis     the canonical setters and the per-frame passes            *)
(*               (transforms, visibility, sync), each handler one step     *)
(*   SpecAtomic  the same next to the atomic setters, each call one step   *)
(*   SpecTransform  the setters, the pivot setters and the transform pass  *)
(*   SpecActions the actions of the nodes and the frame tick               *)
(*   SpecSort    hierarchical rendering in the sort-key pass               *)
(*   SpecHit     the flags of the hit test and the hit test                *)
(*   SpecRender  opacities, the sort-key pass and the render calls         *)
(*   SpecThread  the structural operations called from the renderer and    *)
(*               from other threads, with the thread-affinity assertions   *)
(*   SpecConc    an atomic setter running on a foreign thread, one memory  *)
(*               access per step, interleaved with the graph-owning thread *)
(*   SpecRace    two contexts inside atomic setters on one node            *)
(*   SpecPivot   the pivot setters next to the atomic setters              *)
(*   SpecWorld   setWorldTransform next to the setters and the pass        *)
(*   SpecCycle   addChildNode with any child, cycles included              *)
(*   SpecLoad    the FBX load calls, synchronous and asynchronous          *)
(*   SpecTouch   the touchpad gestures of the Daydream controller          *)
(*               (VROInputControllerDaydream.cpp)                          *)
(* Each specification leaves the variables of the others untouched.        *)
(***************************************************************************)
EXTENDS Integers, Sequences, FiniteSets, TLC

(***************************************************************************)
(* Bounds of the model.                                                    *)
(***************************************************************************)
NumNodes == 3
NumScenes == 1
MaxChildren == 2
MaxBodies == 2
\* calls of canonical setters / of atomic setters in one behaviour
MaxSets == 1
MaxAtomicSets == 1
\* operations in one behaviour of SpecThread
MaxThreadOps == 3
\* distinct actions that are handed to runAction
MaxActions == 2
\* calls of setOpacity and setHidden in one behaviour
MaxOpacitySets == 2
\* calls of setWorldTransform in one behaviour
MaxWorldSets == 1
\* atomic setter calls of each of the two racing contexts
MaxRaceCalls == 1

\* nullptr / an expired weak_ptr
Null == 0

Nodes == 1..NumNodes
Scenes == 1..NumScenes
Bodies == 1..MaxBodies

VARIABLES
    \* ---- scene graph (VRONode fields) ----
    subnodes,        \* _subnodes: ordered child list of each node
    supernode,       \* _supernode: weak back-reference to the parent, or Null
    scene,           \* _scene: weak reference to the scene, or Null
    physicsBody,     \* _physicsBody: the node's body, or Null
    \* ---- the scenes' physics worlds (observed through the calls made) ----
    registered,      \* registered[s][b]: times body b is registered in scene s's world
    hasPhysicsWorld, \* hasPhysicsWorld[s]: scene s has created its physics world
    addCalls,        \* addCalls[b]: addPhysicsBody(b) calls made by the last operation
    removeCalls,     \* removeCalls[b]: removePhysicsBody(b) calls made by the last operation
    nextBody,        \* identity of the next body make_shared<VROPhysicsBody> returns
    \* ---- canonical transform state (graph-owning context) ----
    geometry,        \* _geometry: TRUE when a geometry is attached
    position,        \* _position
    rotation,        \* _rotation (as the diagonal of its rotation matrix)
    scale,           \* _scale
    rotationPivot,   \* _rotationPivot: an optional matrix, <<>> or <<M>>
    scalePivot,      \* _scalePivot: an optional matrix, <<>> or <<M>>
    computedTransform,    \* _computedTransform
    computedRotation,     \* _computedRotation
    computedPosition,     \* _computedPosition
    computedBoundingBox,  \* _computedBoundingBox
    umbrellaBoundingBox,  \* _umbrellaBoundingBox
    visible,              \* _visible
    classified,           \* the frustum's answer for each node the last visibility pass tested
    \* ---- sort keys, opacity, actions, render ----
    hierarchicalRendering, \* _hierarchicalRendering
    opacity,              \* _opacity, in hundredths
    opacityFromHiddenFlag, \* _opacityFromHiddenFlag, in hundredths
    computedOpacity,      \* _computedOpacity, in hundredths
    distanceFromCamera,   \* the distance the last sort-key pass gave the node,
                          \* NotVisited when the pass did not reach it
    furthestDistanceFromCamera, \* params.furthestDistanceFromCamera after the
                          \* last sort-key pass
    actions,              \* _actions: the pending actions of each node
    executed,             \* executed[a]: execute() calls on action a in the last tick
    drawn,                \* the nodes whose geometry the last render pass drew
    checkedIterators,     \* the build's std::vector iterators are checked
    \* ---- hit test ----
    selectable,           \* _selectable
    highAccuracyGaze,     \* _highAccuracyGaze
    hitResults,           \* the nodes of the results of the last hit test, in order
    \* ---- atomic cells ----
    lastPosition,            \* _lastPosition
    lastRotation,            \* _lastRotation
    lastScale,               \* _lastScale
    lastComputedTransform,   \* _lastComputedTransform
    lastComputedPosition,    \* _lastComputedPosition
    lastComputedRotation,    \* _lastComputedRotation
    lastComputedBoundingBox, \* _lastComputedBoundingBox
    lastUmbrellaBoundingBox, \* _lastUmbrellaBoundingBox
    \* ---- build ----
    mobilePlatform,  \* VRO_PLATFORM_IOS || VRO_PLATFORM_ANDROID
    load,            \* the FBX loader: the call in flight, the nodes it made
    touchDownLocationStart, \* Daydream controller: _touchDownLocationStart
    touchEvents,     \* the events the last updateTouchPad call delivered
    racers,          \* two contexts inside atomic setters: position, locals
    worldSetsDone,   \* setWorldTransform calls made so far
                     \* and the onFinish calls made so far
    \* ---- budgets ----
    setsDone,        \* canonical setter calls so far
    atomicSetsDone,  \* atomic setter calls so far
    \* ---- thread affinity (VROThreadRestricted) ----
    threadRestrictionEnabled, \* per node: passert_thread is armed
    aborted,         \* an assertion failed: the process is gone
    caller,          \* the thread that made the last call
    opsDone,         \* calls so far in SpecThread
    \* ---- the interleaved atomic path ----
    foreign,         \* the foreign thread: its position in set*Atomic and its locals
    owner,           \* the stores syncAtomicRenderProperties still has to make
    written,         \* written[c][n]: the initial value of cell c of n and
                     \* every value a store was asked to put there
    \* ---- history ----
    lastOp           \* the operation last called

graphVars == <<subnodes, supernode, scene, physicsBody, registered,
               hasPhysicsWorld, addCalls, removeCalls, nextBody>>
localVars == <<position, rotation, scale>>
attachVars == <<geometry, rotationPivot, scalePivot>>
computedVars == <<computedTransform, computedRotation, computedPosition,
                  computedBoundingBox>>
visVars == <<umbrellaBoundingBox, visible, classified>>
canonVars == <<localVars, attachVars, computedVars, visVars>>
atomicLocalVars == <<lastPosition, lastRotation, lastScale>>
atomicWorldVars == <<lastComputedTransform, lastComputedPosition,
                     lastComputedRotation, lastComputedBoundingBox>>
atomicVars == <<atomicLocalVars, atomicWorldVars, lastUmbrellaBoundingBox>>
budgetVars == <<setsDone, atomicSetsDone>>
\* the fields of the sort-key pass and of render
sortVars == <<hierarchicalRendering, opacity, opacityFromHiddenFlag,
              computedOpacity, distanceFromCamera,
              furthestDistanceFromCamera, actions, executed, drawn,
              checkedIterators>>
\* the fields of the hit test
hitVars == <<selectable, highAccuracyGaze, hitResults>>
\* the build flag and the fields of the sort-key, render and hit-test
\* passes: what the operations on the graph, the transforms and the atomic
\* cells leave alone
\* the build flag and the state of the loader
touchVars == <<touchDownLocationStart, touchEvents>>
platformVars == <<mobilePlatform, load, touchVars, racers, worldSetsDone>>
restVars == <<platformVars, sortVars, hitVars>>
frameVars == <<canonVars, atomicVars, restVars, budgetVars>>
threadVars == <<threadRestrictionEnabled, aborted, caller, opsDone>>
concVars == <<foreign, owner, written>>
vars == <<graphVars, frameVars, threadVars, concVars, lastOp>>

\* What SpecGraph leaves alone, and what the specifications that do not
\* change the structure leave alone.
notGraphVars == <<frameVars, threadVars, concVars>>
structureVars == <<graphVars, threadVars, concVars>>

(***************************************************************************)
(* Sequences and graph helpers.                                            *)
(***************************************************************************)
Range(s) == { s[i] : i \in 1..Len(s) }

RECURSIVE RemoveAll(_, _)
\* std::remove_if + erase: every occurrence of x leaves the vector
RemoveAll(s, x) ==
    IF s = <<>> THEN <<>>
    ELSE IF Head(s) = x THEN RemoveAll(Tail(s), x)
         ELSE <<Head(s)>> \o RemoveAll(Tail(s), x)

RECURSIVE Closure(_, _, _)
Closure(sub, S, k) ==
    IF k = 0 THEN S
    ELSE Closure(sub, S \cup UNION { Range(sub[m]) : m \in S }, k - 1)

\* the nodes reachable from n through child lists, n excluded unless on a cycle
Descendants(sub, n) == Closure(sub, Range(sub[n]), NumNodes)

RECURSIVE Visits(_, _)
RECURSIVE VisitsOfAll(_, _)
\* the order in which a recursive pass started at n visits nodes (pre-order,
\* a node occurring twice in child lists is visited twice)
Visits(sub, n) == <<n>> \o VisitsOfAll(sub, sub[n])
VisitsOfAll(sub, s) ==
    IF s = <<>> THEN <<>>
    ELSE Visits(sub, Head(s)) \o VisitsOfAll(sub, Tail(s))

\* the structure below n is a tree: a pass from n meets each node once
IsTreeAt(sub, n) ==
    LET v == Visits(sub, n) IN Cardinality(Range(v)) = Len(v)

(***************************************************************************)
(* The graph state as one record, so that handlers that call each other    *)
(* (removeAllChildren -> removeFromParentNode -> setScene) compose.        *)
(***************************************************************************)
Graph ==
    [sub |-> subnodes, sup |-> supernode, scn |-> scene, body |-> physicsBody,
     reg |-> registered, world |-> hasPhysicsWorld,
     adds |-> [b \in Bodies |-> 0], rems |-> [b \in Bodies |-> 0]]

\* VROPhysicsWorld::removePhysicsBody, as the node sees it
RemovePhysicsBody(g, s, b) ==
    [g EXCEPT !.reg[s][b] = IF @ > 0 THEN @ - 1 ELSE 0,
              !.rems[b] = @ + 1]

\* VROScene::getPhysicsWorld() (creates the world on first use) followed by
\* VROPhysicsWorld::addPhysicsBody
AddPhysicsBody(g, s, b) ==
    [g EXCEPT !.reg[s][b] = @ + 1,
              !.world[s] = TRUE,
              !.adds[b] = @ + 1]

\* mutant: the old scene's world is not told that the body leaves
SetSceneNoRemove(g, n, s) ==
    LET g2 == [g EXCEPT !.scn[n] = s]
    IN  IF s # Null /\ g.body[n] # Null
        THEN AddPhysicsBody(g2, s, g.body[n]) ELSE g2

\* VRONode::setScene, the node's own part
SetSceneOne(g, n, s) ==
    LET cur == g.scn[n]
        g1 == IF cur # Null /\ g.world[cur] /\ g.body[n] # Null
              THEN RemovePhysicsBody(g, cur, g.body[n]) ELSE g
        g2 == [g1 EXCEPT !.scn[n] = s]
    IN  IF s # Null /\ g.body[n] # Null
        THEN AddPhysicsBody(g2, s, g.body[n]) ELSE g2

RECURSIVE SetScene(_, _, _, _)
RECURSIVE SetSceneOfAll(_, _, _)
\* VRONode::setScene(scene, recursive)
SetScene(g, n, s, recursive) ==
    LET g3 == SetSceneOne(g, n, s)
    IN  IF recursive THEN SetSceneOfAll(g3, g3.sub[n], s) ELSE g3
SetSceneOfAll(g, children, s) ==
    IF children = <<>> THEN g
    ELSE SetSceneOfAll(SetScene(g, Head(children), s, TRUE), Tail(children), s)

\* VRONode::addChildNode
AddChildNodeTo(g, p, n) ==
    LET g1 == [g EXCEPT !.sub[p] = Append(@, n), !.sup[n] = p]
    IN  IF g1.scn[p] # Null THEN SetScene(g1, n, g1.scn[p], TRUE) ELSE g1

\* VRONode::removeFromParentNode
RemoveFromParent(g, n) ==
    LET p == g.sup[n]
        g1 == IF p # Null
              THEN [g EXCEPT !.sub[p] = RemoveAll(@, n), !.sup[n] = Null]
              ELSE g
    IN  SetScene(g1, n, Null, TRUE)

RECURSIVE RemoveEach(_, _)
RemoveEach(g, children) ==
    IF children = <<>> THEN g
    ELSE RemoveEach(RemoveFromParent(g, Head(children)), Tail(children))

\* VRONode::removeAllChildren: iterates a copy of the child list
RemoveChildren(g, n) == RemoveEach(g, g.sub[n])

\* VRONode::initPhysicsBody: a new body replaces the field; the scene's world
\* is told of the new one only
InitBody(g, n, b) ==
    LET g1 == [g EXCEPT !.body[n] = b]
    IN  IF g.scn[n] # Null THEN AddPhysicsBody(g1, g.scn[n], b) ELSE g1

\* VRONode::clearPhysicsBody
ClearBody(g, n) ==
    LET g1 == IF g.body[n] # Null /\ g.scn[n] # Null /\ g.world[g.scn[n]]
              THEN RemovePhysicsBody(g, g.scn[n], g.body[n]) ELSE g
    IN  [g1 EXCEPT !.body[n] = Null]

\* the graph variables take the values of record g
GraphBecomes(g) ==
    /\ subnodes' = g.sub
    /\ supernode' = g.sup
    /\ scene' = g.scn
    /\ physicsBody' = g.body
    /\ registered' = g.reg
    /\ hasPhysicsWorld' = g.world
    /\ addCalls' = g.adds
    /\ removeCalls' = g.rems

Op(name, node, arg) == [name |-> name, node |-> node, arg |-> arg]
SyncName == "syncAtomicRenderProperties"

\* the transform, visibility and atomic fields as the constructor leaves them
FreshFrame ==
    /\ position = [n \in Nodes |-> <<0, 0>>]
    /\ rotation = [n \in Nodes |-> <<1, 1>>]
    /\ scale = [n \in Nodes |-> <<1, 1>>]
    /\ rotationPivot = [n \in Nodes |-> <<>>]
    /\ scalePivot = [n \in Nodes |-> <<>>]
    /\ computedTransform = [n \in Nodes |-> [a |-> <<1, 1>>, b |-> <<0, 0>>]]
    /\ computedRotation = [n \in Nodes |-> [a |-> <<1, 1>>, b |-> <<0, 0>>]]
    /\ computedPosition = [n \in Nodes |-> <<0, 0>>]
    /\ computedBoundingBox = [n \in Nodes |-> <<0, 0, 0, 0>>]
    /\ umbrellaBoundingBox = [n \in Nodes |-> <<0, 0, 0, 0>>]
    /\ visible = [n \in Nodes |-> FALSE]
    /\ classified = [n \in Nodes |-> "NotClassified"]
    /\ lastPosition = [n \in Nodes |-> <<0, 0>>]
    /\ lastRotation = [n \in Nodes |-> <<1, 1>>]
    /\ lastScale = [n \in Nodes |-> <<0, 0>>]
    /\ lastComputedTransform = [n \in Nodes |-> [a |-> <<1, 1>>, b |-> <<0, 0>>]]
    /\ lastComputedPosition = [n \in Nodes |-> <<0, 0>>]
    /\ lastComputedRotation = [n \in Nodes |-> [a |-> <<1, 1>>, b |-> <<0, 0>>]]
    /\ lastComputedBoundingBox = [n \in Nodes |-> <<0, 0, 0, 0>>]
    /\ lastUmbrellaBoundingBox = [n \in Nodes |-> <<0, 0, 0, 0>>]
    /\ setsDone = 0
    /\ atomicSetsDone = 0

\* opacity 1.0, in hundredths
OpacityOne == 100
\* kHiddenOpacityThreshold = 0.02, in hundredths
kHiddenOpacityThreshold == 2
\* the distance of a node the sort-key pass did not reach
NotVisited == -1
ActionIds == 1..MaxActions

\* the fields of the sort-key, render and hit-test passes as the constructor
\* leaves them, in a build with unchecked iterators
FreshPasses ==
    /\ hierarchicalRendering = [n \in Nodes |-> FALSE]
    /\ opacity = [n \in Nodes |-> OpacityOne]
    /\ opacityFromHiddenFlag = [n \in Nodes |-> OpacityOne]
    /\ computedOpacity = [n \in Nodes |-> OpacityOne]
    /\ distanceFromCamera = [n \in Nodes |-> NotVisited]
    /\ furthestDistanceFromCamera = 0
    /\ actions = [n \in Nodes |-> <<>>]
    /\ executed = [a \in ActionIds |-> 0]
    /\ drawn = {}
    /\ checkedIterators = FALSE
    /\ selectable = [n \in Nodes |-> TRUE]
    /\ highAccuracyGaze = [n \in Nodes |-> FALSE]
    /\ hitResults = <<>>

\* the names of the atomic cells, as the fields of the record Atomic below
Cells == {"lp", "lr", "ls", "lt", "lcp", "lcr", "lcb", "lu"}

\* the foreign thread outside any call
IdleForeign ==
    [pc |-> "idle", node |-> Null, parent |-> Null,
     pT |-> [a |-> <<1, 1>>, b |-> <<0, 0>>],
     pR |-> [a |-> <<1, 1>>, b |-> <<0, 0>>],
     M |-> [a |-> <<1, 1>>, b |-> <<0, 0>>],
     geom |-> FALSE, touched |-> {}]

\* the two contexts that call atomic setters at the same time, outside any
\* call
Racers == 1 .. 2
IdleRacers == [t \in Racers |-> [th |-> IdleForeign, calls |-> 0]]

\* the loader with no call made yet
IdleLoad ==
    [pc |-> "idle", kind |-> "none", node |-> Null, onFinish |-> FALSE,
     fbxNode |-> Null, used |-> {}, finished |-> {},
     fbx |-> [n \in Nodes |-> Null], calls |-> <<>>]

\* thread restriction as the VRONode constructor leaves it, no call made yet
FreshThreads ==
    /\ load = IdleLoad
    /\ touchDownLocationStart = <<0, 0>>
    /\ touchEvents = <<>>
    /\ racers = IdleRacers
    /\ worldSetsDone = 0
    /\ threadRestrictionEnabled = [n \in Nodes |-> TRUE]
    /\ aborted = FALSE
    /\ caller = "Renderer"
    /\ opsDone = 0
    /\ foreign = IdleForeign
    /\ owner = <<>>
    /\ written =
          [c \in Cells |->
              [n \in Nodes |->
                  IF c \in {"lp", "lcp"} THEN {<<0, 0>>}
                  ELSE IF c = "lr" THEN {<<1, 1>>}
                  ELSE IF c = "ls" THEN {<<0, 0>>}
                  ELSE IF c \in {"lt", "lcr"} THEN {[a |-> <<1, 1>>, b |-> <<0, 0>>]}
                  ELSE {<<0, 0, 0, 0>>}]]


(***************************************************************************)
(* SpecGraph: structure, scene membership and physics registration.        *)
(* A scene attaches and detaches its root node with setScene(.., true);    *)
(* callers do not insert a node below itself (the recursion of setScene    *)
(* would not return).                                                      *)
(***************************************************************************)
InitGraph ==
    /\ subnodes = [n \in Nodes |-> <<>>]
    /\ supernode = [n \in Nodes |-> Null]
    /\ scene = [n \in Nodes |-> Null]
    /\ physicsBody = [n \in Nodes |-> Null]
    /\ registered = [s \in Scenes |-> [b \in Bodies |-> 0]]
    /\ hasPhysicsWorld = [s \in Scenes |-> FALSE]
    /\ addCalls = [b \in Bodies |-> 0]
    /\ removeCalls = [b \in Bodies |-> 0]
    /\ nextBody = 1
    /\ lastOp = Op("init", Null, Null)
    /\ geometry = [n \in Nodes |-> FALSE]
    /\ mobilePlatform = TRUE
    /\ FreshFrame
    /\ FreshThreads
    /\ FreshPasses

AddChildNode(p, n) ==
    /\ n # p
    /\ p \notin Descendants(subnodes, n)
    /\ Len(subnodes[p]) < MaxChildren
    /\ GraphBecomes(AddChildNodeTo(Graph, p, n))
    /\ lastOp' = Op("addChildNode", n, p)
    /\ UNCHANGED <<nextBody, notGraphVars>>

RemoveFromParentNode(n) ==
    /\ GraphBecomes(RemoveFromParent(Graph, n))
    /\ lastOp' = Op("removeFromParentNode", n, Null)
    /\ UNCHANGED <<nextBody, notGraphVars>>

RemoveAllChildren(n) ==
    /\ subnodes[n] # <<>>
    /\ GraphBecomes(RemoveChildren(Graph, n))
    /\ lastOp' = Op("removeAllChildren", n, Null)
    /\ UNCHANGED <<nextBody, notGraphVars>>

SetSceneRoot(n, s) ==
    /\ supernode[n] = Null
    /\ GraphBecomes(SetScene(Graph, n, s, TRUE))
    /\ lastOp' = Op("setScene", n, s)
    /\ UNCHANGED <<nextBody, notGraphVars>>

InitPhysicsBody(n) ==
    /\ nextBody <= MaxBodies
    /\ GraphBecomes(InitBody(Graph, n, nextBody))
    /\ nextBody' = nextBody + 1
    /\ lastOp' = Op("initPhysicsBody", n, nextBody)
    /\ UNCHANGED notGraphVars

ClearPhysicsBody(n) ==
    /\ physicsBody[n] # Null
    /\ GraphBecomes(ClearBody(Graph, n))
    /\ lastOp' = Op("clearPhysicsBody", n, Null)
    /\ UNCHANGED <<nextBody, notGraphVars>>

NextGraph ==
    \/ \E p \in Nodes, n \in Nodes : AddChildNode(p, n)
    \/ \E n \in Nodes : RemoveFromParentNode(n)
    \/ \E n \in Nodes : RemoveAllChildren(n)
    \/ \E n \in Nodes, s \in Scenes \cup {Null} : SetSceneRoot(n, s)
    \/ \E n \in Nodes : InitPhysicsBody(n)
    \/ \E n \in Nodes : ClearPhysicsBody(n)

SpecGraph == InitGraph /\ [][NextGraph]_vars

(***************************************************************************)
(* SpecCycle: addChildNode with any node as the child, its parent or an    *)
(* ancestor included.  A recursive pass (here the setScene cascade) that   *)
(* meets a cycle never returns: the stack overflows and the process stops. *)
(***************************************************************************)
\* a pass that recurses through child lists from n meets a cycle
RecursesForever(sub, n) ==
    \E m \in {n} \cup Descendants(sub, n) : m \in Descendants(sub, m)

\* VRONode::addChildNode, the cascade included
AddChildNodeChecked(g, p, n) ==
    LET g1 == [g EXCEPT !.sub[p] = Append(@, n), !.sup[n] = p]
    IN  IF g1.scn[p] # Null /\ RecursesForever(g1.sub, n)
        THEN [g |-> g1, overflow |-> TRUE]
        ELSE [g |-> AddChildNodeTo(g, p, n), overflow |-> FALSE]

\* VRONode::removeFromParentNode, the cascade included
RemoveFromParentChecked(g, n) ==
    LET p == g.sup[n]
        g1 == IF p # Null
              THEN [g EXCEPT !.sub[p] = RemoveAll(@, n), !.sup[n] = Null]
              ELSE g
    IN  IF RecursesForever(g1.sub, n)
        THEN [g |-> g1, overflow |-> TRUE]
        ELSE [g |-> RemoveFromParent(g, n), overflow |-> FALSE]

RECURSIVE RemoveEachChecked(_, _)
\* VRONode::removeAllChildren over its copy of the child list
RemoveEachChecked(r, children) ==
    IF children = <<>> \/ r.overflow THEN r
    ELSE RemoveEachChecked(RemoveFromParentChecked(r.g, Head(children)),
                           Tail(children))

\* the graph takes the values of the result r of a checked handler
Returns(r) ==
    /\ GraphBecomes(r.g)
    /\ aborted' = r.overflow
    /\ UNCHANGED <<nextBody, frameVars, threadRestrictionEnabled, caller,
                   opsDone, concVars>>

AddChildNodeAnywhere(p, n) ==
    /\ ~aborted
    /\ Len(subnodes[p]) < MaxChildren
    /\ Returns(AddChildNodeChecked(Graph, p, n))
    /\ lastOp' = Op("addChildNode", n, p)

RemoveFromParentNodeAnywhere(n) ==
    /\ ~aborted
    /\ Returns(RemoveFromParentChecked(Graph, n))
    /\ lastOp' = Op("removeFromParentNode", n, Null)

RemoveAllChildrenAnywhere(n) ==
    /\ ~aborted
    /\ subnodes[n] # <<>>
    /\ Returns(RemoveEachChecked([g |-> Graph, overflow |-> FALSE],
                                 subnodes[n]))
    /\ lastOp' = Op("removeAllChildren", n, Null)

NextCycle ==
    \/ \E p \in Nodes, n \in Nodes : AddChildNodeAnywhere(p, n)
    \/ \E n \in Nodes : RemoveFromParentNodeAnywhere(n)
    \/ \E n \in Nodes : RemoveAllChildrenAnywhere(n)

SpecCycle == InitGraph /\ [][NextCycle]_vars



(***************************************************************************)
(* Vectors, matrices and boxes.  Values are restricted to the x/y plane    *)
(* and to matrices that are a diagonal (scale, and rotations by 180        *)
(* degrees about an axis) plus a translation: a subgroup of the 4x4        *)
(* matrices, on which the products below are exact.                        *)
(***************************************************************************)
ZeroVec == <<0, 0>>
OneVec == <<1, 1>>
VMul(u, v) == <<u[1] * v[1], u[2] * v[2]>>
VAdd(u, v) == <<u[1] + v[1], u[2] + v[2]>>
VNeg(u) == <<0 - u[1], 0 - u[2]>>

\* VROMatrix4f: diagonal a, translation column b
Matrix(a, b) == [a |-> a, b |-> b]
Identity == Matrix(OneVec, ZeroVec)
\* VROMatrix4f::multiply / operator*: (M * N)(x) = M(N(x))
Mul(M, N) == Matrix(VMul(M.a, N.a), VAdd(VMul(M.a, N.b), M.b))
ScaleMatrix(s) == Matrix(s, ZeroVec)
TranslateMatrix(p) == Matrix(OneVec, p)
\* VROQuaternion::getMatrix
RotationMatrix(r) == Matrix(r, ZeroVec)
\* VROMatrix4f::invert, for a pivot (a translation)
InvertPivot(M) == Matrix(M.a, VNeg(M.b))
\* the translation column: transform[12], transform[13], transform[14]
TranslationOf(M) == M.b

Min(x, y) == IF x <= y THEN x ELSE y
Max(x, y) == IF x >= y THEN x ELSE y

\* VROBoundingBox(minX, maxX, minY, maxY, ..)
Box(x0, x1, y0, y1) == <<x0, x1, y0, y1>>
PointBox(p) == Box(p[1], p[1], p[2], p[2])
\* VROBoundingBox::transform: the box of the transformed corners
TransformBox(bx, M) ==
    LET xa == M.a[1] * bx[1] + M.b[1]
        xb == M.a[1] * bx[2] + M.b[1]
        ya == M.a[2] * bx[3] + M.b[2]
        yb == M.a[2] * bx[4] + M.b[2]
    IN  Box(Min(xa, xb), Max(xa, xb), Min(ya, yb), Max(ya, yb))
\* VROBoundingBox::unionDestructive
UnionBox(b1, b2) ==
    Box(Min(b1[1], b2[1]), Max(b1[2], b2[2]), Min(b1[3], b2[3]), Max(b1[4], b2[4]))
BoxContains(outer, inner) ==
    /\ outer[1] <= inner[1] /\ inner[2] <= outer[2]
    /\ outer[3] <= inner[3] /\ inner[4] <= outer[4]

\* the local bounding box of an attached geometry (VROGeometry::getBoundingBox,
\* and its atomic mirror getLastBoundingBox)
GeometryBox == Box(0, 1, 0, 2)

\* the values the setters are called with
Positions == {ZeroVec, <<1, 2>>}
Rotations == {OneVec, <<-1, -1>>}
Scales == {OneVec, <<2, 3>>}

(***************************************************************************)
(* The canonical transform pass.                                           *)
(***************************************************************************)
Canon ==
    [ct |-> computedTransform, cr |-> computedRotation,
     cp |-> computedPosition, cb |-> computedBoundingBox]

\* an optional that holds no value
NoPivot == <<>>
\* the pivots the pivot setters are called with
Pivots == {TranslateMatrix(<<1, 0>>)}

\* mutant: the pivots are left out of the local matrix
LocalTransformWithoutPivots(n) ==
    Mul(TranslateMatrix(position[n]),
        Mul(RotationMatrix(rotation[n]), ScaleMatrix(scale[n])))

\* the node's local matrix: T * Rpiv * R * Rpiv^-1 * Spiv * S * Spiv^-1
LocalTransform(n) ==
    LET s0 == IF scalePivot[n] # NoPivot
              THEN Mul(Mul(scalePivot[n][1], ScaleMatrix(scale[n])),
                       InvertPivot(scalePivot[n][1]))
              ELSE ScaleMatrix(scale[n])
        r0 == IF rotationPivot[n] # NoPivot
              THEN Mul(InvertPivot(rotationPivot[n][1]), s0) ELSE s0
        r1 == Mul(RotationMatrix(rotation[n]), r0)
        r2 == IF rotationPivot[n] # NoPivot
              THEN Mul(rotationPivot[n][1], r1) ELSE r1
    IN  Mul(TranslateMatrix(position[n]), r2)

\* the world bounding box: the geometry's box transformed, or a zero-size box
\* at the node's position
WorldBox(n, M) ==
    IF geometry[n] THEN TransformBox(GeometryBox, M) ELSE PointBox(TranslationOf(M))

\* mutant: the computed transform is not reset to the identity before the
\* local matrix is built on it
DoComputeTransformAccumulating(c, n, parentTransform) ==
    LET M == Mul(parentTransform, Mul(LocalTransform(n), c.ct[n]))
    IN  [c EXCEPT !.ct[n] = M,
                  !.cp[n] = TranslationOf(M),
                  !.cb[n] = WorldBox(n, M)]

\* VRONode::doComputeTransform
DoComputeTransform(c, n, parentTransform) ==
    LET M == Mul(parentTransform, LocalTransform(n))
    IN  [c EXCEPT !.ct[n] = M,
                  !.cp[n] = TranslationOf(M),
                  !.cb[n] = WorldBox(n, M)]

RECURSIVE ComputeTransformsRec(_, _, _, _)
RECURSIVE ComputeTransformsOfAll(_, _, _, _)
\* VRONode::computeTransforms
ComputeTransformsRec(c, n, parentTransform, parentRotation) ==
    LET c1 == DoComputeTransform(c, n, parentTransform)
        c2 == [c1 EXCEPT !.cr[n] = Mul(parentRotation, RotationMatrix(rotation[n]))]
    IN  ComputeTransformsOfAll(c2, subnodes[n], c2.ct[n], c2.cr[n])
ComputeTransformsOfAll(c, children, pT, pR) ==
    IF children = <<>> THEN c
    ELSE ComputeTransformsOfAll(ComputeTransformsRec(c, Head(children), pT, pR),
                                Tail(children), pT, pR)

CanonBecomes(c) ==
    /\ computedTransform' = c.ct
    /\ computedRotation' = c.cr
    /\ computedPosition' = c.cp
    /\ computedBoundingBox' = c.cb

(***************************************************************************)
(* Visibility.                                                             *)
(***************************************************************************)
FrustumResults == {"Inside", "Intersects", "Outside"}

\* VRONode::getBoundingBox (no instanced geometry)
GetBoundingBox(n) == computedBoundingBox[n]

RECURSIVE ComputeUmbrellaBounds(_, _)
RECURSIVE ComputeUmbrellaOfAll(_, _)
\* VRONode::computeUmbrellaBounds
ComputeUmbrellaBounds(bounds, n) ==
    ComputeUmbrellaOfAll(UnionBox(bounds, GetBoundingBox(n)), subnodes[n])
ComputeUmbrellaOfAll(bounds, children) ==
    IF children = <<>> THEN bounds
    ELSE ComputeUmbrellaOfAll(ComputeUmbrellaBounds(bounds, Head(children)),
                              Tail(children))

Vis ==
    [vis |-> visible, umb |-> umbrellaBoundingBox,
     cls |-> [n \in Nodes |-> "NotClassified"]]

RECURSIVE SetVisibilityRecursive(_, _, _)
RECURSIVE SetVisibilityOfAll(_, _, _)
\* VRONode::setVisibilityRecursive
SetVisibilityRecursive(v, n, flag) ==
    SetVisibilityOfAll([v EXCEPT !.vis[n] = flag], subnodes[n], flag)
SetVisibilityOfAll(v, children, flag) ==
    IF children = <<>> THEN v
    ELSE SetVisibilityOfAll(SetVisibilityRecursive(v, Head(children), flag),
                            Tail(children), flag)

\* Set to false to disable visibility testing
kEnableVisibilityFrustumTest == TRUE

\* mutant: the flag is set on the node and its subtree is left as it was
MarkNodeOnly(v, n, flag) == [v EXCEPT !.vis[n] = flag]

\* the branch of updateVisibility that marks a whole subtree
MarkSubtree(v, n, flag) == SetVisibilityRecursive(v, n, flag)

RECURSIVE UpdateVisibilityDescending(_, _, _)
RECURSIVE UpdateVisibilityDescendingOfAll(_, _, _)
\* mutant: every node of the subtree is classified against the frustum,
\* whatever the answer for its parent was
UpdateVisibilityDescending(v, n, res) ==
    LET v1 == [v EXCEPT !.umb[n] =
                  ComputeUmbrellaBounds(PointBox(computedPosition[n]), n),
                        !.cls[n] = res[n],
                        !.vis[n] = (res[n] # "Outside")]
    IN  UpdateVisibilityDescendingOfAll(v1, subnodes[n], res)
UpdateVisibilityDescendingOfAll(v, children, res) ==
    IF children = <<>> THEN v
    ELSE UpdateVisibilityDescendingOfAll(
             UpdateVisibilityDescending(v, Head(children), res),
             Tail(children), res)

RECURSIVE UpdateVisibilityRec(_, _, _)
RECURSIVE UpdateVisibilityOfAll(_, _, _)
\* VRONode::updateVisibility; res[m] is what frustum.intersectAllOpt answers
\* for the umbrella box of m
UpdateVisibilityRec(v, n, res) ==
    LET v1 == [v EXCEPT !.umb[n] =
                  ComputeUmbrellaBounds(PointBox(computedPosition[n]), n),
                        !.cls[n] = res[n]]
    IN  IF res[n] = "Inside" \/ ~kEnableVisibilityFrustumTest
        THEN MarkSubtree(v1, n, TRUE)
        ELSE IF res[n] = "Intersects"
        THEN UpdateVisibilityOfAll([v1 EXCEPT !.vis[n] = TRUE], subnodes[n], res)
        ELSE MarkSubtree(v1, n, FALSE)
UpdateVisibilityOfAll(v, children, res) ==
    IF children = <<>> THEN v
    ELSE UpdateVisibilityOfAll(UpdateVisibilityRec(v, Head(children), res),
                               Tail(children), res)

(***************************************************************************)
(* The atomic transform path.                                              *)
(***************************************************************************)
Atomic ==
    [lp |-> lastPosition, lr |-> lastRotation, ls |-> lastScale,
     lt |-> lastComputedTransform, lcp |-> lastComputedPosition,
     lcr |-> lastComputedRotation, lcb |-> lastComputedBoundingBox,
     lu |-> lastUmbrellaBoundingBox]

\* VRONode::doComputeTransformsAtomic: T * R * S of the atomic local cells,
\* pivots ignored
DoComputeTransformsAtomic(a, n, parentTransform) ==
    LET M == Mul(parentTransform,
                 Mul(TranslateMatrix(a.lp[n]),
                     Mul(RotationMatrix(a.lr[n]), ScaleMatrix(a.ls[n]))))
    IN  [a EXCEPT !.lcp[n] = TranslationOf(M),
                  !.lcb[n] = WorldBox(n, M),
                  !.lt[n] = M]

\* mutant: the parent's canonical transform and rotation are read
ParentWorldCanonical(a, n) ==
    IF supernode[n] # Null
    THEN <<computedTransform[supernode[n]], computedRotation[supernode[n]]>>
    ELSE <<Identity, Identity>>

\* computeTransformsAtomic(): the parent's getLastWorldTransform() and
\* getLastWorldRotation(), the identity without a parent
ParentWorldAtomic(a, n) ==
    IF supernode[n] # Null
    THEN <<a.lt[supernode[n]], a.lcr[supernode[n]]>>
    ELSE <<Identity, Identity>>

\* VRONode::computeTransformsAtomic (both overloads; no recursion to children)
ComputeTransformsAtomic(a, n) ==
    LET pw == ParentWorldAtomic(a, n)
        a1 == DoComputeTransformsAtomic(a, n, pw[1])
    IN  [a1 EXCEPT !.lcr[n] = Mul(pw[2], RotationMatrix(a1.lr[n]))]

\* mutant: sync copies this node only
SyncNodesShallow(n) == {n}

\* the nodes syncAtomicRenderProperties reaches from n
SyncNodes(n) == Range(Visits(subnodes, n))

\* VRONode::syncAtomicRenderProperties: the stores are compiled in on iOS and
\* Android only
SyncAtomic(a, n) ==
    IF ~mobilePlatform THEN a
    ELSE LET S == SyncNodes(n)
             Copy(cell, field) == [m \in Nodes |-> IF m \in S THEN field[m] ELSE cell[m]]
         IN  [lp |-> Copy(a.lp, position), lr |-> Copy(a.lr, rotation),
              ls |-> Copy(a.ls, scale),
              lt |-> Copy(a.lt, computedTransform),
              lcp |-> Copy(a.lcp, computedPosition),
              lcr |-> Copy(a.lcr, computedRotation),
              lcb |-> Copy(a.lcb, computedBoundingBox),
              lu |-> Copy(a.lu, umbrellaBoundingBox)]

AtomicBecomes(a) ==
    /\ lastPosition' = a.lp
    /\ lastRotation' = a.lr
    /\ lastScale' = a.ls
    /\ lastComputedTransform' = a.lt
    /\ lastComputedPosition' = a.lcp
    /\ lastComputedRotation' = a.lcr
    /\ lastComputedBoundingBox' = a.lcb
    /\ lastUmbrellaBoundingBox' = a.lu


(***************************************************************************)
(* SpecVis and SpecAtomic: one graph-owning context runs the setters and   *)
(* the passes; in SpecAtomic the atomic setters run as whole calls in      *)
(* between.  The structure is a tree built before the behaviour starts.    *)
(***************************************************************************)
RECURSIVE Ascending(_)
\* the members of a set of nodes in ascending order
Ascending(S) ==
    IF S = {} THEN <<>>
    ELSE LET m == CHOOSE x \in S : \A y \in S : x <= y
         IN  <<m>> \o Ascending(S \ {m})

\* the trees over Nodes rooted at the first node (the scene's root node) in
\* which every parent was created before its child
ParentMaps ==
    { par \in [Nodes -> Nodes \cup {Null}] :
        \A n \in Nodes : par[n] < n /\ (par[n] = Null <=> n = 1) }

\* which nodes carry a geometry: none, or all but the second
GeometrySets == {{}, { n \in Nodes : n # 2 }}

InitTree ==
    /\ \E par \in ParentMaps :
          /\ supernode = par
          /\ subnodes = [p \in Nodes |-> Ascending({ n \in Nodes : par[n] = p })]
    /\ scene = [n \in Nodes |-> Null]
    /\ physicsBody = [n \in Nodes |-> Null]
    /\ registered = [s \in Scenes |-> [b \in Bodies |-> 0]]
    /\ hasPhysicsWorld = [s \in Scenes |-> FALSE]
    /\ addCalls = [b \in Bodies |-> 0]
    /\ removeCalls = [b \in Bodies |-> 0]
    /\ nextBody = 1
    /\ lastOp = Op("init", Null, Null)
    /\ \E S \in GeometrySets : geometry = [n \in Nodes |-> n \in S]
    /\ mobilePlatform \in BOOLEAN
    /\ FreshFrame
    /\ FreshThreads

InitFrame == InitTree /\ FreshPasses

\* the canonical setters; the animation they wrap has the default duration
\* zero and applies the value at once
SetPosition(n, v) ==
    /\ setsDone < MaxSets
    /\ position' = [position EXCEPT ![n] = v]
    /\ setsDone' = setsDone + 1
    /\ lastOp' = Op("setPosition", n, v)
    /\ UNCHANGED <<rotation, scale, attachVars, computedVars, visVars,
                   atomicVars, restVars, atomicSetsDone, structureVars>>

SetRotation(n, v) ==
    /\ setsDone < MaxSets
    /\ rotation' = [rotation EXCEPT ![n] = v]
    /\ setsDone' = setsDone + 1
    /\ lastOp' = Op("setRotation", n, v)
    /\ UNCHANGED <<position, scale, attachVars, computedVars, visVars,
                   atomicVars, restVars, atomicSetsDone, structureVars>>

SetScale(n, v) ==
    /\ setsDone < MaxSets
    /\ scale' = [scale EXCEPT ![n] = v]
    /\ setsDone' = setsDone + 1
    /\ lastOp' = Op("setScale", n, v)
    /\ UNCHANGED <<position, rotation, attachVars, computedVars, visVars,
                   atomicVars, restVars, atomicSetsDone, structureVars>>

\* mutant: the transform pass also stores the root's world transform in its
\* atomic cell
ComputeTransformsWritingAtomic(n) ==
    /\ supernode[n] = Null
    /\ CanonBecomes(ComputeTransformsRec(Canon, n, Identity, Identity))
    /\ lastComputedTransform' =
          [lastComputedTransform EXCEPT ![n] = Mul(Identity, LocalTransform(n))]
    /\ lastOp' = Op("computeTransforms", n, Null)
    /\ UNCHANGED <<localVars, attachVars, visVars, atomicLocalVars,
                   lastComputedPosition, lastComputedRotation,
                   lastComputedBoundingBox, lastUmbrellaBoundingBox,
                   restVars, budgetVars, structureVars>>

\* the frame's transform pass: computeTransforms on a root, identity parent
ComputeTransforms(n) ==
    /\ supernode[n] = Null
    /\ CanonBecomes(ComputeTransformsRec(Canon, n, Identity, Identity))
    /\ lastOp' = Op("computeTransforms", n, Null)
    /\ UNCHANGED <<localVars, attachVars, visVars, atomicVars,
                   restVars, budgetVars, structureVars>>

\* the frame's visibility pass: updateVisibility on a root
UpdateVisibility(n, res) ==
    /\ supernode[n] = Null
    /\ LET v == UpdateVisibilityRec(Vis, n, res)
       IN  /\ visible' = v.vis
           /\ umbrellaBoundingBox' = v.umb
           /\ classified' = v.cls
    /\ lastOp' = Op("updateVisibility", n, Null)
    /\ UNCHANGED <<localVars, attachVars, computedVars, atomicVars,
                   restVars, budgetVars, structureVars>>

SetPositionAtomic(n, v) ==
    /\ atomicSetsDone < MaxAtomicSets
    /\ AtomicBecomes(ComputeTransformsAtomic([Atomic EXCEPT !.lp[n] = v], n))
    /\ atomicSetsDone' = atomicSetsDone + 1
    /\ lastOp' = Op("setPositionAtomic", n, v)
    /\ UNCHANGED <<canonVars, restVars, setsDone, structureVars>>

SetRotationAtomic(n, v) ==
    /\ atomicSetsDone < MaxAtomicSets
    /\ AtomicBecomes(ComputeTransformsAtomic([Atomic EXCEPT !.lr[n] = v], n))
    /\ atomicSetsDone' = atomicSetsDone + 1
    /\ lastOp' = Op("setRotationAtomic", n, v)
    /\ UNCHANGED <<canonVars, restVars, setsDone, structureVars>>

SetScaleAtomic(n, v) ==
    /\ atomicSetsDone < MaxAtomicSets
    /\ AtomicBecomes(ComputeTransformsAtomic([Atomic EXCEPT !.ls[n] = v], n))
    /\ atomicSetsDone' = atomicSetsDone + 1
    /\ lastOp' = Op("setScaleAtomic", n, v)
    /\ UNCHANGED <<canonVars, restVars, setsDone, structureVars>>

\* the frame's synchronization step: syncAtomicRenderProperties on a root
SyncAtomicRenderProperties(n) ==
    /\ supernode[n] = Null
    /\ AtomicBecomes(SyncAtomic(Atomic, n))
    /\ lastOp' = Op("syncAtomicRenderProperties", n, Null)
    /\ UNCHANGED <<canonVars, restVars, budgetVars, structureVars>>

\* setRotationPivot and setScalePivot: the pivot and its inverse are stored
SetRotationPivot(n, pivot) ==
    /\ rotationPivot[n] = NoPivot
    /\ rotationPivot' = [rotationPivot EXCEPT ![n] = <<pivot>>]
    /\ lastOp' = Op("setRotationPivot", n, pivot)
    /\ UNCHANGED <<localVars, geometry, scalePivot, computedVars, visVars,
                   atomicVars, restVars, budgetVars, structureVars>>

SetScalePivot(n, pivot) ==
    /\ scalePivot[n] = NoPivot
    /\ scalePivot' = [scalePivot EXCEPT ![n] = <<pivot>>]
    /\ lastOp' = Op("setScalePivot", n, pivot)
    /\ UNCHANGED <<localVars, geometry, rotationPivot, computedVars, visVars,
                   atomicVars, restVars, budgetVars, structureVars>>

\* one frustum answer for every box
UniformResults == { [m \in Nodes |-> r] : r \in FrustumResults }

\* SpecVis: the canonical side of a frame with every mix of frustum answers
NextVis ==
    \/ \E n \in Nodes, v \in Positions : SetPosition(n, v)
    \/ \E n \in Nodes, v \in Rotations : SetRotation(n, v)
    \/ \E n \in Nodes, v \in Scales : SetScale(n, v)
    \/ \E n \in Nodes : ComputeTransforms(n)
    \/ \E n \in Nodes, res \in [Nodes -> FrustumResults] : UpdateVisibility(n, res)
    \/ \E n \in Nodes : SyncAtomicRenderProperties(n)

SpecVis == InitFrame /\ [][NextVis]_vars

\* SpecAtomic: the canonical side next to the atomic setters
NextAtomic ==
    \/ \E n \in Nodes, v \in Positions : SetPosition(n, v)
    \/ \E n \in Nodes, v \in Rotations : SetRotation(n, v)
    \/ \E n \in Nodes, v \in Scales : SetScale(n, v)
    \/ \E n \in Nodes : ComputeTransforms(n)
    \/ \E n \in Nodes, res \in UniformResults : UpdateVisibility(n, res)
    \/ \E n \in Nodes, v \in Positions : SetPositionAtomic(n, v)
    \/ \E n \in Nodes, v \in Rotations : SetRotationAtomic(n, v)
    \/ \E n \in Nodes, v \in Scales : SetScaleAtomic(n, v)
    \/ \E n \in Nodes : SyncAtomicRenderProperties(n)

SpecAtomic == InitFrame /\ [][NextAtomic]_vars


\* SpecTransform: the setters, the pivot setters and the transform pass
NextTransform ==
    \/ \E n \in Nodes, v \in Positions : SetPosition(n, v)
    \/ \E n \in Nodes, v \in Rotations : SetRotation(n, v)
    \/ \E n \in Nodes, v \in Scales : SetScale(n, v)
    \/ \E n \in Nodes, pivot \in Pivots : SetRotationPivot(n, pivot)
    \/ \E n \in Nodes, pivot \in Pivots : SetScalePivot(n, pivot)
    \/ \E n \in Nodes : ComputeTransforms(n)

SpecTransform == InitFrame /\ [][NextTransform]_vars

\* VROMatrix4f::extractScale, extractRotation(scale), extractTranslation on
\* a diagonal-plus-translation matrix: the magnitudes of the diagonal, its
\* signs, the translation column
ExtractScale(M) ==
    <<IF M.a[1] < 0 THEN 0 - M.a[1] ELSE M.a[1],
      IF M.a[2] < 0 THEN 0 - M.a[2] ELSE M.a[2]>>
ExtractRotation(M) ==
    <<IF M.a[1] < 0 THEN -1 ELSE 1, IF M.a[2] < 0 THEN -1 ELSE 1>>
\* VROMatrix4f::invert for a matrix whose diagonal entries are 1 or -1
Invert(M) == Matrix(M.a, VNeg(VMul(M.a, M.b)))

\* what a read through the null parent pointer can give, in a build where
\* it does not fault
WildReads == {Identity, TranslateMatrix(<<1, 0>>)}

\* VRONode::setWorldTransform.  The parent's computed transform is read
\* through getParentNode() before the test for a parent: without a parent
\* that is a null dereference, which faults or reads some value.
SetWorldTransform(n, finalPosition, finalRotation) ==
    /\ ~aborted
    /\ worldSetsDone < MaxWorldSets
    /\ worldSetsDone' = worldSetsDone + 1
    /\ LET worldScale == ExtractScale(computedTransform[n])
           finalComputedTransform ==
               Mul(TranslateMatrix(finalPosition),
                   Mul(RotationMatrix(finalRotation), ScaleMatrix(worldScale)))
           p == supernode[n]
       IN  /\ lastOp' = Op("setWorldTransform", n,
                           [position |-> finalPosition,
                            rotation |-> finalRotation,
                            nullDereference |-> p = Null])
           /\ \/ /\ p = Null
                 /\ aborted' = TRUE
                 /\ UNCHANGED <<canonVars>>
              \/ /\ \E parentTransform \in
                        IF p = Null THEN WildReads ELSE {computedTransform[p]} :
                        LET currentTransform ==
                                Mul(Invert(parentTransform),
                                    finalComputedTransform)
                        IN  /\ scale' = [scale EXCEPT
                                            ![n] = ExtractScale(currentTransform)]
                            /\ position' = [position EXCEPT
                                               ![n] = TranslationOf(currentTransform)]
                            /\ rotation' = [rotation EXCEPT
                                               ![n] = ExtractRotation(currentTransform)]
                 /\ UNCHANGED <<attachVars, visVars, aborted>>
                 /\ IF p = Null THEN UNCHANGED computedVars
                    ELSE LET M == Mul(computedTransform[p], LocalTransform(n)')
                             c1 == [Canon EXCEPT
                                       !.ct[n] = M,
                                       !.cp[n] = TranslationOf(M),
                                       !.cb[n] = WorldBox(n, M),
                                       !.cr[n] = Mul(computedRotation[p],
                                                     RotationMatrix(rotation'[n]))]
                         IN  CanonBecomes(ComputeTransformsOfAll(
                                 c1, subnodes[n], M, c1.cr[n]))
    /\ UNCHANGED <<graphVars, atomicVars, budgetVars, mobilePlatform, load,
                   touchVars, racers, sortVars, hitVars,
                   threadRestrictionEnabled, caller, opsDone, concVars>>

\* SpecWorld: positions and rotations are set, the transform pass runs, and
\* setWorldTransform is called on any node; nothing runs after a fault
NextWorld ==
    \/ \E n \in Nodes, v \in Positions : ~aborted /\ SetPosition(n, v)
    \/ \E n \in Nodes, v \in Rotations : ~aborted /\ SetRotation(n, v)
    \/ \E n \in Nodes : ~aborted /\ ComputeTransforms(n)
    \/ \E n \in Nodes, v \in Positions, r \in Rotations :
          SetWorldTransform(n, v, r)

SpecWorld == InitFrame /\ [][NextWorld]_vars

\* SpecPivot: the canonical setters, the pivot setters and the transform pass
\* next to the atomic setters; pivots are given to the root and to one other
\* node
PivotNodes == { n \in Nodes : n <= 2 }
NextPivot ==
    \/ \E n \in Nodes, v \in Positions : SetPosition(n, v)
    \/ \E n \in Nodes, v \in Rotations : SetRotation(n, v)
    \/ \E n \in Nodes, v \in Scales : SetScale(n, v)
    \/ \E n \in PivotNodes, pivot \in Pivots : SetRotationPivot(n, pivot)
    \/ \E n \in PivotNodes, pivot \in Pivots : SetScalePivot(n, pivot)
    \/ \E n \in Nodes : ComputeTransforms(n)
    \/ \E n \in Nodes, v \in Positions : SetPositionAtomic(n, v)
    \/ \E n \in Nodes, v \in Rotations : SetRotationAtomic(n, v)
    \/ \E n \in Nodes, v \in Scales : SetScaleAtomic(n, v)

SpecPivot == InitFrame /\ [][NextPivot]_vars


(***************************************************************************)
(* The sort-key pass.  updateSortKeys runs the node's pending actions,     *)
(* returns at an invisible node, and otherwise computes the composite      *)
(* opacity and the distance from the camera and moves down the tree.  The  *)
(* stacks of the render parameters are threaded as the values on their     *)
(* tops.  Opacities are hundredths; a distance is four times the square of *)
(* the distance between the camera and the centre of a box.                *)
(***************************************************************************)
\* the actions handed to runAction: a repeating per-frame action, a timed
\* action that is complete, and an animated action
ActionKinds ==
    { [type |-> "PerFrame", repeat |-> TRUE],
      [type |-> "Timed", repeat |-> FALSE],
      [type |-> "Animated", repeat |-> TRUE] }
Actions ==
    { [id |-> i, type |-> k.type, repeat |-> k.repeat] :
          i \in ActionIds, k \in ActionKinds }

\* camera positions
Cameras == {<<0, 0>>, <<3, 1>>}

\* the tops of the stacks of fresh render parameters
RenderParameters ==
    [opacity |-> OpacityOne, hierarchyDepth |-> -1, distanceFromCamera |-> 0,
     furthestDistanceFromCamera |-> 0]

\* the product of two opacities
OpacityMul(x, y) == (x * y) \div OpacityOne

\* _computedBoundingBox.getCenter().distance(camera position)
CenterDistance(bx, cam) ==
    LET dx == bx[1] + bx[2] - 2 * cam[1]
        dy == bx[3] + bx[4] - 2 * cam[2]
    IN  dx * dx + dy * dy

\* getBoundingBox().getFurthestDistanceToPoint(camera position): the distance
\* of the corner of the box that is furthest from the point
FurthestDistance(bx, cam) ==
    LET dx == Max((2 * bx[1] - 2 * cam[1]) * (2 * bx[1] - 2 * cam[1]),
                  (2 * bx[2] - 2 * cam[1]) * (2 * bx[2] - 2 * cam[1]))
        dy == Max((2 * bx[3] - 2 * cam[2]) * (2 * bx[3] - 2 * cam[2]),
                  (2 * bx[4] - 2 * cam[2]) * (2 * bx[4] - 2 * cam[2]))
    IN  dx + dy

Sort ==
    [co |-> computedOpacity,
     dist |-> [n \in Nodes |-> NotVisited],
     far |-> RenderParameters.furthestDistanceFromCamera,
     acts |-> actions,
     exec |-> [a \in ActionIds |-> 0],
     ab |-> aborted]

\* whether processActions keeps the action in the list
StaysPending(a) == a.type \in {"PerFrame", "Timed"} /\ a.repeat

RECURSIVE ProcessActionsFrom(_, _, _)
\* VRONode::processActions from position i of the list: the action is
\* executed, and erased unless it stays pending.  The iterator is used after
\* the erase: a build with checked iterators stops the process there, any
\* other build goes on with the element that followed the erased one.
ProcessActionsFrom(s, n, i) ==
    IF s.ab \/ i > Len(s.acts[n]) THEN s
    ELSE LET a == s.acts[n][i]
             s1 == [s EXCEPT !.exec[a.id] = @ + 1]
         IN  IF StaysPending(a) THEN ProcessActionsFrom(s1, n, i + 1)
             ELSE IF checkedIterators THEN [s1 EXCEPT !.ab = TRUE]
             ELSE ProcessActionsFrom(
                      [s1 EXCEPT !.acts[n] =
                          SubSeq(@, 1, i - 1) \o SubSeq(@, i + 1, Len(@))],
                      n, i)

\* VRONode::processActions
ProcessActions(s, n) == ProcessActionsFrom(s, n, 1)

\* mutant: every node with a geometry takes the distance of its own box
SortKeyDistanceOfOwnBox(n, top, cam) ==
    IF geometry[n] THEN CenterDistance(computedBoundingBox[n], cam) ELSE 0

\* the local distanceFromCamera of updateSortKeys: the parent's inside a
\* hierarchy, the distance of the node's own box for a node with a geometry
\* outside a hierarchy or on top of one, and zero otherwise
SortKeyDistance(n, top, cam) ==
    LET isParentHierarchical == top.hierarchyDepth >= 0
        isHierarchical == hierarchicalRendering[n] \/ isParentHierarchical
        isTopOfHierarchy == hierarchicalRendering[n] /\ ~isParentHierarchical
        inherited == IF isHierarchical /\ ~isTopOfHierarchy
                     THEN top.distanceFromCamera ELSE 0
    IN  IF geometry[n] /\ (~isHierarchical \/ isTopOfHierarchy)
        THEN CenterDistance(computedBoundingBox[n], cam)
        ELSE inherited

\* the local furthestDistanceFromCamera of updateSortKeys: measured for a
\* node with a geometry outside a hierarchy or on top of one, zero otherwise
SortKeyFurthest(n, top, cam) ==
    LET isParentHierarchical == top.hierarchyDepth >= 0
        isHierarchical == hierarchicalRendering[n] \/ isParentHierarchical
        isTopOfHierarchy == hierarchicalRendering[n] /\ ~isParentHierarchical
    IN  IF geometry[n] /\ (~isHierarchical \/ isTopOfHierarchy)
        THEN FurthestDistance(GetBoundingBox(n), cam)
        ELSE 0

RECURSIVE UpdateSortKeysRec(_, _, _, _)
RECURSIVE UpdateSortKeysOfAll(_, _, _, _)
\* VRONode::updateSortKeys; top holds the tops of the parameter stacks
UpdateSortKeysRec(s, n, top, cam) ==
    LET s1 == ProcessActions(s, n)
        co == OpacityMul(OpacityMul(top.opacity, opacity[n]),
                         opacityFromHiddenFlag[n])
        isHierarchical == hierarchicalRendering[n] \/ top.hierarchyDepth >= 0
        depth == IF isHierarchical THEN top.hierarchyDepth + 1 ELSE -1
        dist == SortKeyDistance(n, top, cam)
    IN  IF s1.ab \/ ~visible[n] THEN s1
        ELSE UpdateSortKeysOfAll(
                 [s1 EXCEPT !.co[n] = co, !.dist[n] = dist,
                            !.far = Max(@, SortKeyFurthest(n, top, cam))],
                 subnodes[n],
                 [opacity |-> co, hierarchyDepth |-> depth,
                  distanceFromCamera |-> dist],
                 cam)
UpdateSortKeysOfAll(s, children, top, cam) ==
    IF children = <<>> THEN s
    ELSE UpdateSortKeysOfAll(UpdateSortKeysRec(s, Head(children), top, cam),
                             Tail(children), top, cam)

\* runAction: the action joins the end of the node's list
RunAction(n, a) ==
    /\ ~aborted
    /\ \A m \in Nodes : \A i \in DOMAIN actions[m] : actions[m][i].id # a.id
    /\ actions' = [actions EXCEPT ![n] = Append(@, a)]
    /\ lastOp' = Op("runAction", n, a.id)
    /\ UNCHANGED <<graphVars, canonVars, atomicVars, budgetVars, platformVars,
                   hierarchicalRendering, opacity, opacityFromHiddenFlag,
                   computedOpacity, distanceFromCamera,
                   furthestDistanceFromCamera, executed, drawn,
                   checkedIterators, hitVars, threadVars, concVars>>

\* the frame tick: updateSortKeys on a root with fresh render parameters
UpdateSortKeys(n, cam) ==
    /\ ~aborted
    /\ supernode[n] = Null
    /\ LET s == UpdateSortKeysRec(Sort, n, RenderParameters, cam)
       IN  /\ computedOpacity' = s.co
           /\ distanceFromCamera' = s.dist
           /\ furthestDistanceFromCamera' = s.far
           /\ actions' = s.acts
           /\ executed' = s.exec
           /\ aborted' = s.ab
    /\ lastOp' = Op("updateSortKeys", n, cam)
    /\ UNCHANGED <<graphVars, canonVars, atomicVars, budgetVars, platformVars,
                   hierarchicalRendering, opacity, opacityFromHiddenFlag,
                   drawn, checkedIterators, hitVars, threadRestrictionEnabled,
                   caller, opsDone, concVars>>

\* SpecActions: actions handed to the nodes of a tree without geometry, the
\* visibility pass and the frame tick, in a build with or without checked
\* iterators
InitActions ==
    /\ InitTree
    /\ ~mobilePlatform
    /\ geometry = [n \in Nodes |-> FALSE]
    /\ hierarchicalRendering = [n \in Nodes |-> FALSE]
    /\ opacity = [n \in Nodes |-> OpacityOne]
    /\ opacityFromHiddenFlag = [n \in Nodes |-> OpacityOne]
    /\ computedOpacity = [n \in Nodes |-> OpacityOne]
    /\ distanceFromCamera = [n \in Nodes |-> NotVisited]
    /\ furthestDistanceFromCamera = 0
    /\ actions = [n \in Nodes |-> <<>>]
    /\ executed = [a \in ActionIds |-> 0]
    /\ drawn = {}
    /\ checkedIterators \in BOOLEAN
    /\ selectable = [n \in Nodes |-> TRUE]
    /\ highAccuracyGaze = [n \in Nodes |-> FALSE]
    /\ hitResults = <<>>

NextActions ==
    \/ \E n \in Nodes, a \in Actions : RunAction(n, a)
    \/ \E n \in Nodes, res \in UniformResults : UpdateVisibility(n, res)
    \/ \E n \in Nodes : UpdateSortKeys(n, <<0, 0>>)

SpecActions == InitActions /\ [][NextActions]_vars

\* frustum answers that reach every visibility pattern of a tree: one answer
\* for every box, or the root intersecting and each other box intersecting
\* or outside
RefinedResults ==
    UniformResults \cup
        { res \in [Nodes -> {"Intersects", "Outside"}] : res[1] = "Intersects" }

\* SpecSort: trees whose nodes carry any mix of hierarchical-rendering flags
\* (setHierarchicalRendering), moved nodes, and the passes of a frame with
\* the camera at any of its positions
InitSort ==
    /\ InitTree
    /\ ~mobilePlatform
    /\ hierarchicalRendering \in [Nodes -> BOOLEAN]
    /\ opacity = [n \in Nodes |-> OpacityOne]
    /\ opacityFromHiddenFlag = [n \in Nodes |-> OpacityOne]
    /\ computedOpacity = [n \in Nodes |-> OpacityOne]
    /\ distanceFromCamera = [n \in Nodes |-> NotVisited]
    /\ furthestDistanceFromCamera = 0
    /\ actions = [n \in Nodes |-> <<>>]
    /\ executed = [a \in ActionIds |-> 0]
    /\ drawn = {}
    /\ checkedIterators = FALSE
    /\ selectable = [n \in Nodes |-> TRUE]
    /\ highAccuracyGaze = [n \in Nodes |-> FALSE]
    /\ hitResults = <<>>

NextSort ==
    \/ \E n \in Nodes, v \in Positions : SetPosition(n, v)
    \/ \E n \in Nodes : ComputeTransforms(n)
    \/ \E n \in Nodes, res \in RefinedResults : UpdateVisibility(n, res)
    \/ \E n \in Nodes, cam \in Cameras : UpdateSortKeys(n, cam)

SpecSort == InitSort /\ [][NextSort]_vars

(***************************************************************************)
(* The hit test.  Whether the ray meets a node's bounding box and whether  *)
(* it meets one of its triangles are inputs: boxHit and triHit are the     *)
(* sets of nodes for which getBoundingBox().intersectsRay and              *)
(* hitTestGeometry answer true.                                            *)
(***************************************************************************)
\* mutant: a composite opacity equal to the threshold passes
AtOrAboveHiddenThreshold(x) == x >= kHiddenOpacityThreshold

\* _computedOpacity > kHiddenOpacityThreshold
AboveHiddenThreshold(x) == x > kHiddenOpacityThreshold

\* mutant: the caller's boundsOnly is used as it was passed
BoundsOnlyAsRequested(n, boundsOnly) == boundsOnly

\* boundsOnly = boundsOnly && !getHighAccuracyGaze()
EffectiveBoundsOnly(n, boundsOnly) == boundsOnly /\ ~highAccuracyGaze[n]

RECURSIVE HitTestRec(_, _, _, _, _)
RECURSIVE HitTestOfAll(_, _, _, _, _)
\* VRONode::hitTest (the recursive overload)
HitTestRec(results, n, boundsOnly, boxHit, triHit) ==
    IF ~selectable[n] THEN results
    ELSE LET bo == EffectiveBoundsOnly(n, boundsOnly)
             r1 == IF /\ geometry[n]
                      /\ AboveHiddenThreshold(computedOpacity[n])
                      /\ visible[n]
                      /\ n \in boxHit
                      /\ (bo \/ n \in triHit)
                   THEN Append(results, n) ELSE results
         IN  HitTestOfAll(r1, subnodes[n], bo, boxHit, triHit)
HitTestOfAll(results, children, boundsOnly, boxHit, triHit) ==
    IF children = <<>> THEN results
    ELSE HitTestOfAll(
             HitTestRec(results, Head(children), boundsOnly, boxHit, triHit),
             Tail(children), boundsOnly, boxHit, triHit)

\* VRONode::hitTest (the overload that returns the results) on a root
HitTest(n, boundsOnly, boxHit, triHit) ==
    /\ ~aborted
    /\ supernode[n] = Null
    /\ hitResults' = HitTestRec(<<>>, n, boundsOnly, boxHit, triHit)
    /\ lastOp' = Op("hitTest", n,
                    [boundsOnly |-> boundsOnly, boxHit |-> boxHit,
                     triHit |-> triHit])
    /\ UNCHANGED <<graphVars, canonVars, atomicVars, budgetVars, platformVars,
                   sortVars, selectable, highAccuracyGaze, threadVars,
                   concVars>>

\* VRONode::setHighAccuracyGaze
SetHighAccuracyGaze(n, enabled) ==
    /\ ~aborted
    /\ highAccuracyGaze' = [highAccuracyGaze EXCEPT ![n] = enabled]
    /\ lastOp' = Op("setHighAccuracyGaze", n, enabled)
    /\ UNCHANGED <<graphVars, canonVars, atomicVars, budgetVars, platformVars,
                   sortVars, selectable, hitResults, threadVars, concVars>>

\* SpecHit: trees with geometries whose nodes carry any mix of selectable
\* flags (setSelectable), the high-accuracy setter, the visibility pass and
\* hit tests with every answer of the box and triangle tests
InitHit ==
    /\ InitTree
    /\ ~mobilePlatform
    /\ geometry # [n \in Nodes |-> FALSE]
    /\ hierarchicalRendering = [n \in Nodes |-> FALSE]
    /\ opacity = [n \in Nodes |-> OpacityOne]
    /\ opacityFromHiddenFlag = [n \in Nodes |-> OpacityOne]
    /\ computedOpacity = [n \in Nodes |-> OpacityOne]
    /\ distanceFromCamera = [n \in Nodes |-> NotVisited]
    /\ furthestDistanceFromCamera = 0
    /\ actions = [n \in Nodes |-> <<>>]
    /\ executed = [a \in ActionIds |-> 0]
    /\ drawn = {}
    /\ checkedIterators = FALSE
    /\ selectable \in [Nodes -> BOOLEAN]
    /\ highAccuracyGaze = [n \in Nodes |-> FALSE]
    /\ hitResults = <<>>

NextHit ==
    \/ \E n \in Nodes, enabled \in BOOLEAN : SetHighAccuracyGaze(n, enabled)
    \/ \E n \in Nodes, res \in RefinedResults : UpdateVisibility(n, res)
    \/ \E n \in Nodes, boundsOnly \in BOOLEAN, boxHit \in SUBSET Nodes :
          \E triHit \in SUBSET boxHit : HitTest(n, boundsOnly, boxHit, triHit)

SpecHit == InitHit /\ [][NextHit]_vars

(***************************************************************************)
(* Rendering.  drawn is the set of nodes whose geometry the last render    *)
(* call drew.  For the recursive render, lit is the set of nodes whose     *)
(* materials bind their shader and are lit (computed lights, a Constant    *)
(* material, or a PBR material with an irradiance map); for the            *)
(* silhouettes, passing is the set of nodes the filter accepts.            *)
(***************************************************************************)
\* the opacities setOpacity is called with
Opacities == {50, 4, 6}

\* setOpacity; the animation has the default duration zero
SetOpacity(n, v) ==
    /\ ~aborted
    /\ setsDone < MaxOpacitySets
    /\ opacity' = [opacity EXCEPT ![n] = v]
    /\ setsDone' = setsDone + 1
    /\ lastOp' = Op("setOpacity", n, v)
    /\ UNCHANGED <<graphVars, canonVars, atomicVars, atomicSetsDone,
                   platformVars,
                   hierarchicalRendering, opacityFromHiddenFlag,
                   computedOpacity, distanceFromCamera,
                   furthestDistanceFromCamera, actions, executed,
                   drawn, checkedIterators, hitVars, threadVars, concVars>>

\* setHidden; the hidden-flag opacity becomes 0.0 or 1.0
SetHidden(n, hidden) ==
    /\ ~aborted
    /\ setsDone < MaxOpacitySets
    /\ opacityFromHiddenFlag' =
          [opacityFromHiddenFlag EXCEPT ![n] = IF hidden THEN 0 ELSE OpacityOne]
    /\ setsDone' = setsDone + 1
    /\ lastOp' = Op("setHidden", n, hidden)
    /\ UNCHANGED <<graphVars, canonVars, atomicVars, atomicSetsDone,
                   platformVars,
                   hierarchicalRendering, opacity, computedOpacity,
                   distanceFromCamera, furthestDistanceFromCamera, actions,
                   executed, drawn,
                   checkedIterators, hitVars, threadVars, concVars>>

\* what a render call leaves alone
notDrawnVars ==
    <<graphVars, canonVars, atomicVars, budgetVars, platformVars,
      hierarchicalRendering, opacity, opacityFromHiddenFlag, computedOpacity,
      distanceFromCamera, furthestDistanceFromCamera, actions, executed,
      checkedIterators, hitVars,
      threadVars, concVars>>

\* VRONode::render(elementIndex, material, context, driver)
RenderElement(n) ==
    /\ ~aborted
    /\ drawn' = IF geometry[n] /\ AboveHiddenThreshold(computedOpacity[n])
                THEN {n} ELSE {}
    /\ lastOp' = Op("renderElement", n, Null)
    /\ UNCHANGED notDrawnVars

RECURSIVE RenderRec(_, _, _)
RECURSIVE RenderOfAll(_, _, _)
\* VRONode::render(context, driver)
RenderRec(d, n, lit) ==
    \* the test is made by the recursive render, and again by the element
    \* render it calls for a lit element
    LET d1 == IF /\ geometry[n] /\ AboveHiddenThreshold(computedOpacity[n])
                 /\ n \in lit
                 /\ geometry[n] /\ AboveHiddenThreshold(computedOpacity[n])
              THEN d \cup {n} ELSE d
    IN  RenderOfAll(d1, subnodes[n], lit)
RenderOfAll(d, children, lit) ==
    IF children = <<>> THEN d
    ELSE RenderOfAll(RenderRec(d, Head(children), lit), Tail(children), lit)

Render(n, lit) ==
    /\ ~aborted
    /\ supernode[n] = Null
    /\ drawn' = RenderRec({}, n, lit)
    /\ lastOp' = Op("render", n, lit)
    /\ UNCHANGED notDrawnVars

RECURSIVE RenderSilhouettesRec(_, _, _)
RECURSIVE RenderSilhouettesOfAll(_, _, _)
\* VRONode::renderSilhouettes
RenderSilhouettesRec(d, n, passing) ==
    LET d1 == IF /\ geometry[n] /\ AboveHiddenThreshold(computedOpacity[n])
                 /\ n \in passing
              THEN d \cup {n} ELSE d
    IN  RenderSilhouettesOfAll(d1, subnodes[n], passing)
RenderSilhouettesOfAll(d, children, passing) ==
    IF children = <<>> THEN d
    ELSE RenderSilhouettesOfAll(RenderSilhouettesRec(d, Head(children), passing),
                                Tail(children), passing)

RenderSilhouettes(n, passing) ==
    /\ ~aborted
    /\ supernode[n] = Null
    /\ drawn' = RenderSilhouettesRec({}, n, passing)
    /\ lastOp' = Op("renderSilhouettes", n, passing)
    /\ UNCHANGED notDrawnVars

\* SpecRender: opacities and hidden flags set on the nodes of a tree with
\* geometries, the passes of a frame, the render calls and the hit test
InitRender ==
    /\ InitTree
    /\ ~mobilePlatform
    /\ geometry # [n \in Nodes |-> FALSE]
    /\ FreshPasses

NextRender ==
    \/ \E n \in Nodes, v \in Opacities : SetOpacity(n, v)
    \/ \E n \in Nodes, hidden \in BOOLEAN : SetHidden(n, hidden)
    \/ \E n \in Nodes : UpdateVisibility(n, [m \in Nodes |-> "Inside"])
    \/ \E n \in Nodes : UpdateSortKeys(n, <<0, 0>>)
    \/ \E n \in Nodes : RenderElement(n)
    \/ \E n \in Nodes, lit \in {{}, Nodes} : Render(n, lit)
    \/ \E n \in Nodes, passing \in {{}, Nodes} : RenderSilhouettes(n, passing)
    \/ \E n \in Nodes : HitTest(n, TRUE, Nodes, {})

SpecRender == InitRender /\ [][NextRender]_vars

(***************************************************************************)
(* SpecThread: the structural operations, each called from the renderer    *)
(* thread or from another one.  A handler that starts with passert_thread  *)
(* aborts the process when the node's restriction is armed and the caller  *)
(* is not the renderer; a handler without the assertion runs.  The FBX     *)
(* loader creates its nodes with the restriction switched off.             *)
(***************************************************************************)
Contexts == {"Renderer", "Foreign"}

\* passert_thread passes: the restriction is off, or the caller is the
\* thread the node was constructed for (VROThreadName::Renderer)
PassertThread(n, ctx) == ~threadRestrictionEnabled[n] \/ ctx = "Renderer"

\* the bookkeeping of one call
Called(ctx, name, n, arg) ==
    /\ ~aborted
    /\ opsDone < MaxThreadOps
    /\ opsDone' = opsDone + 1
    /\ caller' = ctx
    /\ lastOp' = Op(name, n, arg)

\* the assertion fails: nothing but the process's end
Abort ==
    /\ aborted' = TRUE
    /\ UNCHANGED <<graphVars, frameVars, threadRestrictionEnabled, concVars>>

ThreadAddChildNode(ctx, p, n) ==
    /\ n # p
    /\ p \notin Descendants(subnodes, n)
    /\ Len(subnodes[p]) < MaxChildren
    /\ Called(ctx, "addChildNode", n, p)
    /\ IF PassertThread(p, ctx)
       THEN /\ GraphBecomes(AddChildNodeTo(Graph, p, n))
            /\ UNCHANGED <<nextBody, frameVars, threadRestrictionEnabled,
                           aborted, concVars>>
       ELSE Abort

ThreadRemoveFromParentNode(ctx, n) ==
    /\ Called(ctx, "removeFromParentNode", n, Null)
    /\ IF PassertThread(n, ctx)
       THEN /\ GraphBecomes(RemoveFromParent(Graph, n))
            /\ UNCHANGED <<nextBody, frameVars, threadRestrictionEnabled,
                           aborted, concVars>>
       ELSE Abort

RECURSIVE RemoveEachAsserting(_, _, _)
\* the loop of removeAllChildren: each child's removeFromParentNode asserts
\* for itself; the loop ends at the first child whose assertion fails
RemoveEachAsserting(r, children, ctx) ==
    IF children = <<>> \/ r.failed THEN r
    ELSE IF PassertThread(Head(children), ctx)
         THEN RemoveEachAsserting(
                  [g |-> RemoveFromParent(r.g, Head(children)), failed |-> FALSE],
                  Tail(children), ctx)
         ELSE [r EXCEPT !.failed = TRUE]

\* removeAllChildren has no assertion of its own
ThreadRemoveAllChildren(ctx, n) ==
    /\ subnodes[n] # <<>>
    /\ Called(ctx, "removeAllChildren", n, Null)
    /\ LET r == RemoveEachAsserting([g |-> Graph, failed |-> FALSE],
                                    subnodes[n], ctx)
       IN  /\ GraphBecomes(r.g)
           /\ aborted' = r.failed
    /\ UNCHANGED <<nextBody, frameVars, threadRestrictionEnabled, concVars>>

\* setScene has no assertion
ThreadSetScene(ctx, n, s) ==
    /\ supernode[n] = Null
    /\ Called(ctx, "setScene", n, s)
    /\ GraphBecomes(SetScene(Graph, n, s, TRUE))
    /\ UNCHANGED <<nextBody, frameVars, threadRestrictionEnabled, aborted,
                   concVars>>

\* initPhysicsBody has no assertion
ThreadInitPhysicsBody(ctx, n) ==
    /\ nextBody <= MaxBodies
    /\ Called(ctx, "initPhysicsBody", n, nextBody)
    /\ GraphBecomes(InitBody(Graph, n, nextBody))
    /\ nextBody' = nextBody + 1
    /\ UNCHANGED <<frameVars, threadRestrictionEnabled, aborted, concVars>>

\* clearPhysicsBody has no assertion
ThreadClearPhysicsBody(ctx, n) ==
    /\ physicsBody[n] # Null
    /\ Called(ctx, "clearPhysicsBody", n, Null)
    /\ GraphBecomes(ClearBody(Graph, n))
    /\ UNCHANGED <<nextBody, frameVars, threadRestrictionEnabled, aborted,
                   concVars>>

\* what setParticleEmitter and removeParticleEmitter do to the node: the
\* geometry becomes the emitter's particle surface, or is reset
EmitterChanges(n, attached) ==
    /\ geometry' = [geometry EXCEPT ![n] = attached]
    /\ UNCHANGED <<localVars, rotationPivot, scalePivot, computedVars, visVars,
                   atomicVars, restVars, graphVars>>

ThreadSetParticleEmitter(ctx, n) ==
    /\ Called(ctx, "setParticleEmitter", n, Null)
    /\ IF PassertThread(n, ctx)
       THEN /\ EmitterChanges(n, TRUE)
            /\ UNCHANGED <<budgetVars, threadRestrictionEnabled, aborted,
                           concVars>>
       ELSE Abort

ThreadRemoveParticleEmitter(ctx, n) ==
    /\ Called(ctx, "removeParticleEmitter", n, Null)
    /\ IF PassertThread(n, ctx)
       THEN /\ EmitterChanges(n, FALSE)
            /\ UNCHANGED <<budgetVars, threadRestrictionEnabled, aborted,
                           concVars>>
       ELSE Abort

\* a node no operation has touched since its construction
Pristine(n) ==
    /\ supernode[n] = Null
    /\ subnodes[n] = <<>>
    /\ \A p \in Nodes : n \notin Range(subnodes[p])
    /\ scene[n] = Null
    /\ physicsBody[n] = Null
    /\ ~geometry[n]
    /\ threadRestrictionEnabled[n]

\* VROFBXLoader::loadFBX / loadFBXNode, the creation of one node on the
\* loader's background thread: make_shared<VRONode>() and
\* setThreadRestrictionEnabled(false)
LoadFBXNode(n) ==
    /\ Pristine(n)
    /\ Called("Foreign", "loadFBXNode", n, Null)
    /\ threadRestrictionEnabled' = [threadRestrictionEnabled EXCEPT ![n] = FALSE]
    /\ UNCHANGED <<graphVars, frameVars, aborted, concVars>>

RECURSIVE AddEach(_, _, _)
AddEach(g, node, children) ==
    IF children = <<>> THEN g
    ELSE AddEach(AddChildNodeTo(g, node, Head(children)), node, Tail(children))

\* VROFBXLoader::injectFBX on the renderer thread: the children of the
\* loader's dummy root are added to the destination node
InjectFBX(fbxNode, node) ==
    /\ fbxNode # node
    /\ ~threadRestrictionEnabled[fbxNode]
    /\ supernode[fbxNode] = Null
    /\ subnodes[fbxNode] # <<>>
    /\ node \notin Descendants(subnodes, fbxNode)
    /\ Len(subnodes[node]) + Len(subnodes[fbxNode]) <= MaxChildren
    /\ Called("Renderer", "injectFBX", node, fbxNode)
    /\ GraphBecomes(AddEach(Graph, node, subnodes[fbxNode]))
    /\ UNCHANGED <<nextBody, frameVars, threadRestrictionEnabled, aborted,
                   concVars>>

NextThread ==
    \/ \E ctx \in Contexts, p \in Nodes, n \in Nodes : ThreadAddChildNode(ctx, p, n)
    \/ \E ctx \in Contexts, n \in Nodes : ThreadRemoveFromParentNode(ctx, n)
    \/ \E ctx \in Contexts, n \in Nodes : ThreadRemoveAllChildren(ctx, n)
    \/ \E ctx \in Contexts, n \in Nodes, s \in Scenes \cup {Null} :
          ThreadSetScene(ctx, n, s)
    \/ \E ctx \in Contexts, n \in Nodes : ThreadInitPhysicsBody(ctx, n)
    \/ \E ctx \in Contexts, n \in Nodes : ThreadClearPhysicsBody(ctx, n)
    \/ \E ctx \in Contexts, n \in Nodes : ThreadSetParticleEmitter(ctx, n)
    \/ \E ctx \in Contexts, n \in Nodes : ThreadRemoveParticleEmitter(ctx, n)
    \/ \E n \in Nodes : LoadFBXNode(n)
    \/ \E fbxNode \in Nodes, node \in Nodes : InjectFBX(fbxNode, node)

SpecThread == InitGraph /\ [][NextThread]_vars


(***************************************************************************)
(* SpecLoad: the FBX load calls.  A call makes the node it returns; loadFBX *)
(* builds the loaded subtree under a dummy root, or returns no node when   *)
(* the download or the parse fails; injectFBX moves the children over and  *)
(* calls onFinish.  An asynchronous call is three steps: the call, the     *)
(* closure on the background thread, the closure on the renderer thread.   *)
(* The calls are made on the renderer thread.                              *)
(***************************************************************************)
LoadKinds == {"URL", "File", "FileWithResources"}

\* make_shared<VRONode>(): a node no call has made or touched yet
FreshNode(n) == Pristine(n) /\ n \notin load.used

\* what a download and a parse can give: failures, or a dummy root with
\* children, all of them fresh nodes
LoadOutcomes(node) ==
    { [fetched |-> f, parsed |-> q, root |-> Null, children |-> <<>>] :
          f \in BOOLEAN, q \in BOOLEAN }
    \cup
    { [fetched |-> TRUE, parsed |-> TRUE, root |-> r, children |-> c] :
          r \in { m \in Nodes : FreshNode(m) /\ m # node },
          c \in { <<>> } \cup
                { <<m>> : m \in { k \in Nodes : FreshNode(k) /\ k # node } } }

\* the download of loadFBXFromURL followed by loadFBX: the dummy root with
\* the loaded nodes below it, or no node
LoadFBX(g, kind, out) ==
    IF (kind = "URL" => out.fetched) /\ out.parsed /\ out.root # Null
       /\ out.root \notin Range(out.children)
    THEN [g |-> AddEach(g, out.root, out.children), fbxNode |-> out.root,
          made |-> {out.root} \cup Range(out.children)]
    ELSE [g |-> g, fbxNode |-> Null, made |-> {}]

\* an outcome loadFBX can be given: a failure has no root, a success has one
Consistent(kind, out) ==
    (out.root # Null) <=> ((kind = "URL" => out.fetched) /\ out.parsed)

\* mutant: onFinish is called before the children are moved over
InjectFBXFinishingFirst(g, calls, fbxNode, node, onFinish) ==
    [g |-> IF fbxNode # Null THEN AddEach(g, node, g.sub[fbxNode]) ELSE g,
     calls |-> IF onFinish
               THEN Append(calls, [node |-> node, success |-> fbxNode # Null,
                                   attached |-> Range(g.sub[node])])
               ELSE calls]

\* VROFBXLoader::injectFBX; calls is the list of the onFinish calls, each with
\* the children the node has when it is made
InjectFBXInto(g, calls, fbxNode, node, onFinish) ==
    IF fbxNode # Null
    THEN LET g1 == AddEach(g, node, g.sub[fbxNode])
         IN  [g |-> g1,
              calls |-> IF onFinish
                        THEN Append(calls, [node |-> node, success |-> TRUE,
                                            attached |-> Range(g1.sub[node])])
                        ELSE calls]
    ELSE [g |-> g,
          calls |-> IF onFinish
                    THEN Append(calls, [node |-> node, success |-> FALSE,
                                        attached |-> Range(g.sub[node])])
                    ELSE calls]

\* what the steps of a load leave alone
notLoadVars ==
    <<nextBody, canonVars, atomicVars, budgetVars, mobilePlatform, touchVars,
      racers, worldSetsDone, sortVars, hitVars, aborted, caller, opsDone, concVars>>

\* the nodes loadFBX makes have their thread restriction switched off
Unrestricted(made) ==
    threadRestrictionEnabled' =
        [n \in Nodes |-> IF n \in made THEN FALSE ELSE threadRestrictionEnabled[n]]

\* loadFBXFromURL, loadFBXFromFile, loadFBXFromFileWithResources with
\* async = false
LoadFBXSync(kind, onFinish, node, out) ==
    /\ ~aborted
    /\ load.pc = "idle"
    /\ FreshNode(node)
    /\ Consistent(kind, out)
    /\ LET l == LoadFBX(Graph, kind, out)
           r == InjectFBXInto(l.g, load.calls, l.fbxNode, node, onFinish)
       IN  /\ GraphBecomes(r.g)
           /\ Unrestricted(l.made)
           /\ load' = [load EXCEPT
                          !.used = @ \cup {node} \cup l.made,
                          !.finished = IF onFinish THEN @ \cup {node} ELSE @,
                          !.fbx[node] = l.fbxNode,
                          !.calls = r.calls]
    /\ lastOp' = Op("loadFBX", node, [kind |-> kind, async |-> FALSE])
    /\ UNCHANGED notLoadVars

\* the same calls with async = true: the node is returned, the work is queued
LoadFBXAsync(kind, onFinish, node) ==
    /\ ~aborted
    /\ load.pc = "idle"
    /\ FreshNode(node)
    /\ load' = [load EXCEPT !.pc = "background", !.kind = kind,
                            !.node = node, !.onFinish = onFinish,
                            !.used = @ \cup {node}]
    /\ lastOp' = Op("loadFBX", node, [kind |-> kind, async |-> TRUE])
    /\ UNCHANGED <<graphVars, threadRestrictionEnabled, notLoadVars>>

\* the closure given to VROPlatformDispatchAsyncBackground
LoadInBackground(out) ==
    /\ ~aborted
    /\ load.pc = "background"
    /\ Consistent(load.kind, out)
    /\ LET l == LoadFBX(Graph, load.kind, out)
       IN  /\ GraphBecomes(l.g)
           /\ Unrestricted(l.made)
           /\ load' = [load EXCEPT !.pc = "renderer", !.fbxNode = l.fbxNode,
                                   !.used = @ \cup l.made,
                                   !.fbx[load.node] = l.fbxNode]
    /\ lastOp' = Op("loadInBackground", load.node, Null)
    /\ UNCHANGED notLoadVars

\* the closure given to VROPlatformDispatchAsyncRenderer
InjectOnRenderer ==
    /\ ~aborted
    /\ load.pc = "renderer"
    /\ LET r == InjectFBXInto(Graph, load.calls, load.fbxNode, load.node,
                              load.onFinish)
       IN  /\ GraphBecomes(r.g)
           /\ load' = [load EXCEPT
                          !.pc = "idle", !.kind = "none", !.node = Null,
                          !.onFinish = FALSE, !.fbxNode = Null,
                          !.finished = IF load.onFinish
                                       THEN @ \cup {load.node} ELSE @,
                          !.calls = r.calls]
    /\ lastOp' = Op("injectFBX", load.node, load.fbxNode)
    /\ UNCHANGED <<threadRestrictionEnabled, notLoadVars>>

NextLoad ==
    \/ \E kind \in LoadKinds, onFinish \in BOOLEAN, node \in Nodes :
          \E out \in LoadOutcomes(node) : LoadFBXSync(kind, onFinish, node, out)
    \/ \E kind \in LoadKinds, onFinish \in BOOLEAN, node \in Nodes :
          LoadFBXAsync(kind, onFinish, node)
    \/ \E out \in LoadOutcomes(load.node) : LoadInBackground(out)
    \/ InjectOnRenderer

SpecLoad == InitGraph /\ [][NextLoad]_vars


(***************************************************************************)
(* SpecTouch: the touchpad of the Daydream controller.  Touch positions    *)
(* are pairs of small integers; the controller state of a frame is an      *)
(* input.  onSwipe, onScroll and onTouchpadEvent of the base class deliver *)
(* an event each.                                                          *)
(***************************************************************************)
TouchCoords == 0 .. 2
TouchPositions == TouchCoords \X TouchCoords

Abs(x) == IF x < 0 THEN -x ELSE x

\* VROInputControllerDaydream::updateSwipeGesture
UpdateSwipeGesture(start, end) ==
    LET diffX == end[1] - start[1]
        diffY == end[2] - start[2]
        swipeState ==
            IF Abs(diffX) > Abs(diffY)
            THEN (IF diffX > 0 THEN "SwipeRight" ELSE "SwipeLeft")
            ELSE (IF diffY > 0 THEN "SwipeDown" ELSE "SwipeUp")
    IN  << [type |-> "swipe", state |-> swipeState] >>

\* VROInputControllerDaydream::updateScrollGesture; the magnitude of the
\* difference is zero exactly when the difference is
UpdateScrollGesture(start, end) ==
    LET diffX == end[1] - start[1]
        diffY == end[2] - start[2]
    IN  IF diffX = 0 /\ diffY = 0 THEN <<>>
        ELSE << [type |-> "scroll", x |-> diffX, y |-> diffY] >>

\* VROInputControllerDaydream::updateTouchPad; touchUp, touchDown, touching
\* are GetTouchUp(), GetTouchDown(), IsTouching() of the controller state
UpdateTouchPad(pos, touchUp, touchDown, touching) ==
    /\ ~aborted
    /\ LET action == IF touchUp THEN "TouchUp"
                     ELSE IF touchDown THEN "TouchDown"
                     ELSE IF touching THEN "TouchDownMove"
                     ELSE "None"
           gesture == IF touchUp
                      THEN UpdateSwipeGesture(touchDownLocationStart, pos)
                      ELSE IF touchDown THEN <<>>
                      ELSE IF touching
                      THEN UpdateScrollGesture(touchDownLocationStart, pos)
                      ELSE <<>>
       IN  /\ touchDownLocationStart' =
                 IF ~touchUp /\ touchDown THEN pos ELSE touchDownLocationStart
           /\ touchEvents' =
                 IF action = "None" THEN <<>>
                 ELSE gesture \o << [type |-> "touchpad", state |-> action,
                                     x |-> pos[1], y |-> pos[2]] >>
           /\ lastOp' = Op("updateTouchPad", Null,
                           [action |-> action, pos |-> pos])
    /\ UNCHANGED <<graphVars, canonVars, atomicVars, budgetVars, mobilePlatform,
                   load, racers, worldSetsDone, sortVars, hitVars, threadVars,
                   concVars>>

NextTouch ==
    \E pos \in TouchPositions, touchUp \in BOOLEAN, touchDown \in BOOLEAN,
       touching \in BOOLEAN : UpdateTouchPad(pos, touchUp, touchDown, touching)

SpecTouch == InitGraph /\ [][NextTouch]_vars


(***************************************************************************)
(* SpecConc: one foreign thread runs a set*Atomic call, one memory access  *)
(* per step, while the graph-owning thread runs the transform pass, the    *)
(* emitter operations and syncAtomicRenderProperties, whose stores are     *)
(* single steps too.  The foreign thread writes values other than the      *)
(* defaults, so that its stores and the owner's differ.                    *)
(***************************************************************************)
\* mutant: a store that is not atomic and is seen half-way, the first
\* component new and the rest old
TornStore(old, new) ==
    LET first == CHOOSE i \in DOMAIN new : TRUE
    IN  [i \in DOMAIN new |-> IF i = first THEN new[i] ELSE old[i]]

\* std::atomic<T>::store: the whole value replaces the old one
AtomicStore(old, new) == new

\* VRONode::getLast*: the load of one cell
GetLast(c, n) == Atomic[c][n]

\* cell c of node n is stored to
CellStore(c, n, v) ==
    /\ AtomicBecomes([Atomic EXCEPT ![c][n] = AtomicStore(@, v)])
    /\ written' = [written EXCEPT ![c][n] = @ \cup {v}]

OwnerIdle == owner = <<>>

\* the first statement of an atomic setter: the store to the local cell
BeginAtomic(name, c, n, v) ==
    /\ foreign.pc = "idle"
    /\ atomicSetsDone < MaxAtomicSets
    /\ atomicSetsDone' = atomicSetsDone + 1
    /\ CellStore(c, n, v)
    /\ foreign' = [IdleForeign EXCEPT !.pc = "getParent", !.node = n,
                                      !.touched = {c}]
    /\ lastOp' = Op(name, n, v)
    /\ UNCHANGED <<canonVars, restVars, setsDone, graphVars, threadVars,
                   owner>>

BeginSetPositionAtomic(n, v) == BeginAtomic("setPositionAtomic", "lp", n, v)
BeginSetRotationAtomic(n, v) == BeginAtomic("setRotationAtomic", "lr", n, v)
BeginSetScaleAtomic(n, v) == BeginAtomic("setScaleAtomic", "ls", n, v)

\* a step of the foreign thread that stores to no cell
ForeignMoves(f) ==
    /\ foreign' = f
    /\ UNCHANGED <<graphVars, frameVars, threadVars, owner, written, lastOp>>

\* a step of the foreign thread that stores v to cell c of its node
ForeignStores(c, v, pc) ==
    /\ CellStore(c, foreign.node, v)
    /\ foreign' = [foreign EXCEPT !.pc = pc, !.touched = @ \cup {c}]
    /\ UNCHANGED <<graphVars, canonVars, restVars, budgetVars,
                   threadVars, owner, lastOp>>

\* computeTransformsAtomic(): getParentNode() locks _supernode
GetParentNode ==
    /\ foreign.pc = "getParent"
    /\ LET p == supernode[foreign.node]
       IN  ForeignMoves([foreign EXCEPT
               !.parent = p,
               !.touched = @ \cup {"_supernode"},
               !.pc = IF p = Null THEN "loadScale" ELSE "loadParentTransform"])

\* parent->getLastWorldTransform()
LoadParentTransform ==
    /\ foreign.pc = "loadParentTransform"
    /\ ForeignMoves([foreign EXCEPT !.pT = GetLast("lt", foreign.parent),
                                    !.touched = @ \cup {"lt"},
                                    !.pc = "loadParentRotation"])

\* parent->getLastWorldRotation()
LoadParentRotation ==
    /\ foreign.pc = "loadParentRotation"
    /\ ForeignMoves([foreign EXCEPT !.pR = GetLast("lcr", foreign.parent),
                                    !.touched = @ \cup {"lcr"},
                                    !.pc = "loadScale"])

\* doComputeTransformsAtomic: _lastScale.load()
LoadScale ==
    /\ foreign.pc = "loadScale"
    /\ ForeignMoves([foreign EXCEPT
           !.M = ScaleMatrix(GetLast("ls", foreign.node)),
           !.touched = @ \cup {"ls"},
           !.pc = "loadRotation"])

\* _lastRotation.load().getMatrix() * transform
LoadRotation ==
    /\ foreign.pc = "loadRotation"
    /\ ForeignMoves([foreign EXCEPT
           !.M = Mul(RotationMatrix(GetLast("lr", foreign.node)), @),
           !.touched = @ \cup {"lr"},
           !.pc = "loadPosition"])

\* _lastPosition.load(), translate * transform, parentTransform * transform
LoadPosition ==
    /\ foreign.pc = "loadPosition"
    /\ ForeignMoves([foreign EXCEPT
           !.M = Mul(foreign.pT,
                     Mul(TranslateMatrix(GetLast("lp", foreign.node)), @)),
           !.touched = @ \cup {"lp"},
           !.pc = "storePosition"])

\* _lastComputedPosition.store(computedPosition)
StoreComputedPosition ==
    /\ foreign.pc = "storePosition"
    /\ ForeignStores("lcp", TranslationOf(foreign.M), "testGeometry")

\* if (_geometry): a plain read of the shared_ptr
TestGeometry ==
    /\ foreign.pc = "testGeometry"
    /\ ForeignMoves([foreign EXCEPT !.geom = geometry[foreign.node],
                                    !.touched = @ \cup {"_geometry"},
                                    !.pc = "storeBoundingBox"])

\* _lastComputedBoundingBox.store(..): with a geometry, _geometry is read
\* again and dereferenced; when the owner has reset it since the test the
\* behaviour is undefined: the thread faults, or reads the old geometry
StoreBoundingBox ==
    /\ foreign.pc = "storeBoundingBox"
    /\ \/ /\ foreign.geom /\ ~geometry[foreign.node]
          /\ ForeignMoves([foreign EXCEPT !.pc = "fault"])
       \/ ForeignStores("lcb",
                        IF foreign.geom
                        THEN TransformBox(GeometryBox, foreign.M)
                        ELSE PointBox(TranslationOf(foreign.M)),
                        "storeTransform")

\* _lastComputedTransform.store(transform)
StoreTransform ==
    /\ foreign.pc = "storeTransform"
    /\ ForeignStores("lt", foreign.M, "storeRotation")

\* _lastComputedRotation.store(parentRotation * _lastRotation.load().getMatrix())
StoreRotation ==
    /\ foreign.pc = "storeRotation"
    /\ ForeignStores("lcr",
                     Mul(foreign.pR, RotationMatrix(GetLast("lr", foreign.node))),
                     "idle")

\* the canonical field syncAtomicRenderProperties stores into cell c
CanonicalOf(c, n) ==
    CASE c = "lt" -> computedTransform[n]
      [] c = "lcp" -> computedPosition[n]
      [] c = "lcr" -> computedRotation[n]
      [] c = "lp" -> position[n]
      [] c = "lr" -> rotation[n]
      [] c = "ls" -> scale[n]
      [] c = "lcb" -> computedBoundingBox[n]
      [] c = "lu" -> umbrellaBoundingBox[n]

\* the stores of syncAtomicRenderProperties on one node, in program order
SyncOrder == <<"lt", "lcp", "lcr", "lp", "lr", "ls", "lcb", "lu">>

RECURSIVE SyncQueue(_)
\* the stores of a sync over a sequence of nodes
SyncQueue(nodes) ==
    IF nodes = <<>> \/ ~mobilePlatform THEN <<>>
    ELSE [i \in 1..Len(SyncOrder) |-> <<Head(nodes), SyncOrder[i]>>]
         \o SyncQueue(Tail(nodes))

\* the owner calls syncAtomicRenderProperties on a root
BeginSync(n) ==
    /\ OwnerIdle
    /\ supernode[n] = Null
    /\ owner' = SyncQueue(Visits(subnodes, n))
    /\ lastOp' = Op(SyncName, n, Null)
    /\ UNCHANGED <<graphVars, frameVars, threadVars, foreign, written>>

\* the next store of the running sync
SyncStore ==
    /\ owner # <<>>
    /\ LET n == Head(owner)[1]
           c == Head(owner)[2]
       IN  CellStore(c, n, CanonicalOf(c, n))
    /\ owner' = Tail(owner)
    /\ UNCHANGED <<graphVars, canonVars, restVars, budgetVars,
                   threadVars, foreign, lastOp>>

\* the emitter operations on the graph-owning thread; they count as setter
\* calls in the budget
SetParticleEmitter(n) ==
    /\ setsDone < MaxSets
    /\ ~geometry[n]
    /\ EmitterChanges(n, TRUE)
    /\ setsDone' = setsDone + 1
    /\ lastOp' = Op("setParticleEmitter", n, Null)
    /\ UNCHANGED <<atomicSetsDone, threadVars, concVars>>

RemoveParticleEmitter(n) ==
    /\ setsDone < MaxSets
    /\ geometry[n]
    /\ EmitterChanges(n, FALSE)
    /\ setsDone' = setsDone + 1
    /\ lastOp' = Op("removeParticleEmitter", n, Null)
    /\ UNCHANGED <<atomicSetsDone, threadVars, concVars>>

NextConc ==
    \/ \E n \in Nodes : OwnerIdle /\ ComputeTransforms(n)
    \/ \E n \in Nodes : OwnerIdle /\ SetParticleEmitter(n)
    \/ \E n \in Nodes : OwnerIdle /\ RemoveParticleEmitter(n)
    \/ \E n \in Nodes : BeginSync(n)
    \/ SyncStore
    \/ \E n \in Nodes, v \in Positions \ {ZeroVec} : BeginSetPositionAtomic(n, v)
    \/ \E n \in Nodes, v \in Rotations \ {OneVec} : BeginSetRotationAtomic(n, v)
    \/ \E n \in Nodes, v \in Scales \ {OneVec} : BeginSetScaleAtomic(n, v)
    \/ GetParentNode
    \/ LoadParentTransform
    \/ LoadParentRotation
    \/ LoadScale
    \/ LoadRotation
    \/ LoadPosition
    \/ StoreComputedPosition
    \/ TestGeometry
    \/ StoreBoundingBox
    \/ StoreTransform
    \/ StoreRotation

SpecConc == InitFrame /\ [][NextConc]_vars


(***************************************************************************)
(* SpecRace: two contexts call atomic setters, each call one memory access *)
(* per step, in any interleaving.  No other thread runs.                   *)
(***************************************************************************)

\* the memory access at position f.pc of computeTransformsAtomic, made by a
\* context with the locals f on the cells a: the context's locals and the
\* cells after it
AtomicAccess(f, a) ==
    LET n == f.node
        moves(g) == [th |-> g, a |-> a]
        stores(c, v, pc) ==
            [th |-> [f EXCEPT !.pc = pc, !.touched = @ \cup {c}],
             a |-> [a EXCEPT ![c][n] = AtomicStore(@, v)]]
    IN  CASE f.pc = "getParent" ->
                 moves([f EXCEPT !.parent = supernode[n],
                                 !.pc = IF supernode[n] = Null THEN "loadScale"
                                        ELSE "loadParentTransform"])
          [] f.pc = "loadParentTransform" ->
                 moves([f EXCEPT !.pT = a.lt[f.parent],
                                 !.pc = "loadParentRotation"])
          [] f.pc = "loadParentRotation" ->
                 moves([f EXCEPT !.pR = a.lcr[f.parent], !.pc = "loadScale"])
          [] f.pc = "loadScale" ->
                 moves([f EXCEPT !.M = ScaleMatrix(a.ls[n]),
                                 !.pc = "loadRotation"])
          [] f.pc = "loadRotation" ->
                 moves([f EXCEPT !.M = Mul(RotationMatrix(a.lr[n]), @),
                                 !.pc = "loadPosition"])
          [] f.pc = "loadPosition" ->
                 moves([f EXCEPT
                           !.M = Mul(f.pT, Mul(TranslateMatrix(a.lp[n]), @)),
                           !.pc = "storePosition"])
          [] f.pc = "storePosition" ->
                 stores("lcp", TranslationOf(f.M), "storeBoundingBox")
          [] f.pc = "storeBoundingBox" ->
                 stores("lcb", WorldBox(n, f.M), "storeTransform")
          [] f.pc = "storeTransform" ->
                 stores("lt", f.M, "storeRotation")
          [] f.pc = "storeRotation" ->
                 stores("lcr", Mul(f.pR, RotationMatrix(a.lr[n])), "idle")

\* context t enters set{Position,Rotation,Scale}Atomic on node n: the store
\* to the local cell c
BeginRace(t, name, c, n, v) ==
    /\ racers[t].th.pc = "idle"
    /\ racers[t].calls < MaxRaceCalls
    /\ \A u \in Racers : racers[u].th.node \in {Null, n}
    /\ AtomicBecomes([Atomic EXCEPT ![c][n] = AtomicStore(@, v)])
    /\ racers' = [racers EXCEPT
                     ![t] = [th |-> [IdleForeign EXCEPT !.pc = "getParent",
                                                        !.node = n,
                                                        !.touched = {c}],
                             calls |-> @.calls + 1]]
    /\ lastOp' = Op(name, n, v)
    /\ UNCHANGED <<graphVars, canonVars, budgetVars, mobilePlatform, load,
                   touchVars, worldSetsDone, sortVars, hitVars, threadVars,
                   concVars>>

\* the next step of context t inside its call
StepRace(t) ==
    /\ racers[t].th.pc # "idle"
    /\ LET r == AtomicAccess(racers[t].th, Atomic)
       IN  /\ AtomicBecomes(r.a)
           /\ racers' = [racers EXCEPT ![t].th = r.th]
    /\ UNCHANGED <<graphVars, canonVars, budgetVars, mobilePlatform, load,
                   touchVars, worldSetsDone, sortVars, hitVars, threadVars,
                   concVars, lastOp>>

NextRace ==
    \/ \E t \in Racers, n \in Nodes, v \in Positions \ {ZeroVec} :
          BeginRace(t, "setPositionAtomic", "lp", n, v)
    \/ \E t \in Racers, n \in Nodes, v \in Rotations \ {OneVec} :
          BeginRace(t, "setRotationAtomic", "lr", n, v)
    \/ \E t \in Racers, n \in Nodes, v \in Scales \ {OneVec} :
          BeginRace(t, "setScaleAtomic", "ls", n, v)
    \/ \E t \in Racers : StepRace(t)

SpecRace == InitFrame /\ [][NextRace]_vars


(***************************************************************************)
(* Claims.                                                                 *)
(***************************************************************************)
AtomicSetterNames == {"setPositionAtomic", "setRotationAtomic", "setScaleAtomic"}

\* C1: immediately after a visibility pass from the root, a node that is not
\* visible has no visible descendant.
C1_VisibilityMonotone ==
    lastOp.name = "updateVisibility" =>
        \A n \in Range(Visits(subnodes, lastOp.node)) :
            ~visible[n] => \A d \in Descendants(subnodes, n) : ~visible[d]

\* C1 witness: a pass answered Intersects at a visible parent and Outside at
\* a child that has children of its own.
C1_Witness ==
    /\ lastOp.name = "updateVisibility"
    /\ \E n \in Nodes :
          /\ supernode[n] # Null
          /\ visible[supernode[n]]
          /\ ~visible[n]
          /\ subnodes[n] # <<>>

\* C2: attaching a tree-shaped subtree to a scene calls addPhysicsBody exactly
\* once for the body of each node in it, and the body is then registered
\* exactly once, also when the node was in that scene before (it is removed
\* once first); detaching calls removePhysicsBody exactly once and
\* addPhysicsBody not at all, and leaves the body unregistered.
C2_PhysicsCalls ==
    [][ LET op == lastOp'
            n == op.node
            attachTo == IF op.name = "addChildNode" THEN scene[op.arg]
                        ELSE IF op.name = "setScene" THEN op.arg
                        ELSE Null
            detach == \/ op.name = "removeFromParentNode"
                      \/ op.name = "setScene" /\ op.arg = Null
        IN  /\ (attachTo # Null /\ IsTreeAt(subnodes', n)) =>
                  \A m \in Range(Visits(subnodes', n)) :
                      physicsBody[m] # Null =>
                          /\ addCalls'[physicsBody[m]] = 1
                          /\ removeCalls'[physicsBody[m]] =
                                 (IF scene[m] # Null THEN 1 ELSE 0)
                          /\ registered'[attachTo][physicsBody[m]] = 1
            /\ (detach /\ IsTreeAt(subnodes', n)) =>
                  \A m \in Range(Visits(subnodes', n)) :
                      (physicsBody[m] # Null /\ scene[m] # Null) =>
                          /\ removeCalls'[physicsBody[m]] = 1
                          /\ addCalls'[physicsBody[m]] = 0
                          /\ registered'[scene[m]][physicsBody[m]] = 0
      ]_vars

\* C2 witness: addChildNode has attached a subtree whose body sits on a node
\* below the subtree's root, with one add call and no remove call.
C2_Witness ==
    /\ lastOp.name = "addChildNode"
    /\ \E m \in Descendants(subnodes, lastOp.node) :
          /\ physicsBody[m] # Null
          /\ scene[m] # Null
          /\ addCalls[physicsBody[m]] = 1
          /\ removeCalls[physicsBody[m]] = 0
          /\ registered[scene[m]][physicsBody[m]] = 1

\* C3: every node that has a parent references the same scene as its parent.
C3_SceneUniform ==
    \A n \in Nodes : supernode[n] # Null => scene[n] = scene[supernode[n]]

Count(s, x) == Cardinality({ i \in 1..Len(s) : s[i] = x })

\* C4: a node occurs in the child list of P if and only if its parent
\* back-reference is P, and then exactly once.
C4_ExclusiveOwnership ==
    \A n \in Nodes, p \in Nodes :
        /\ (Count(subnodes[p], n) >= 1 <=> supernode[n] = p)
        /\ Count(subnodes[p], n) <= 1

SyncedNode(m) ==
    /\ lastComputedTransform[m] = computedTransform[m]
    /\ lastComputedPosition[m] = computedPosition[m]
    /\ lastComputedRotation[m] = computedRotation[m]
    /\ lastPosition[m] = position[m]
    /\ lastRotation[m] = rotation[m]
    /\ lastScale[m] = scale[m]
    /\ lastComputedBoundingBox[m] = computedBoundingBox[m]
    /\ lastUmbrellaBoundingBox[m] = umbrellaBoundingBox[m]

\* C6 as stated: after syncAtomicRenderProperties on N every atomic cell of
\* every node in N's subtree equals its canonical field.
C6_SyncCopiesSubtree ==
    lastOp.name = SyncName =>
        \A m \in Range(Visits(subnodes, lastOp.node)) : SyncedNode(m)

\* C6 amended: on an iOS or Android build, after syncAtomicRenderProperties
\* on N every atomic cell of every node in N's subtree equals its canonical
\* field.
C6_SyncCopiesSubtreeOnMobile ==
    (mobilePlatform /\ lastOp.name = SyncName) =>
        \A m \in Range(Visits(subnodes, lastOp.node)) : SyncedNode(m)

\* C6 witness: a sync on a mobile build after a transform pass and a
\* visibility pass moved a descendant's canonical fields and umbrella box.
C6_Witness ==
    /\ mobilePlatform
    /\ lastOp.name = SyncName
    /\ \E m \in Descendants(subnodes, lastOp.node) :
          /\ lastComputedTransform[m] # Identity
          /\ lastUmbrellaBoundingBox[m] # <<0, 0, 0, 0>>

ReaderCells == {"lt", "lcp", "lcr", "lp", "lr", "ls", "lu"}

\* C8: at every point of every interleaving of a foreign set*Atomic call with
\* the owner's transform passes and sync stores, a load of a single atomic
\* cell returns the cell's initial value or a value one store put there.
C8_NoTornRead ==
    \A c \in ReaderCells, n \in Nodes : GetLast(c, n) \in written[c][n]

\* C8 witness: a foreign call and a sync are both under way, and a cell of
\* the foreign call's node has held three values: the initial one, the
\* foreign store's and the sync's.
C8_Witness ==
    /\ owner # <<>>
    /\ foreign.pc \notin {"idle", "fault"}
    /\ \E c \in ReaderCells : Cardinality(written[c][foreign.node]) >= 3

\* C9: the atomic path run by the foreign thread accesses atomic cells only,
\* no plain field such as the geometry attachment or the parent link.
C9_AtomicPathOnlyAtomicCells ==
    foreign.touched \subseteq Cells

OwnerOnlyOps ==
    {"addChildNode", "removeFromParentNode", "removeAllChildren", "setScene",
     "initPhysicsBody", "clearPhysicsBody", "setParticleEmitter",
     "removeParticleEmitter"}

\* C10: a structural operation called from a thread other than the renderer
\* fails the thread assertion (and so changes nothing), on every node, the
\* nodes the FBX loader made included.
C10_ForeignCallsAbort ==
    (caller = "Foreign" /\ lastOp.name \in OwnerOnlyOps) => aborted

C13_PassIdempotent ==
    lastOp.name = "computeTransforms" =>
        ComputeTransformsRec(Canon, lastOp.node, Identity, Identity) = Canon

\* C13 witness: a pass has run over a tree in which a node below a moved
\* parent has a computed transform other than the identity.
C13_Witness ==
    /\ lastOp.name = "computeTransforms"
    /\ \E n \in Nodes :
          /\ supernode[n] # Null
          /\ position[supernode[n]] # ZeroVec
          /\ computedTransform[n] # Identity
          /\ computedBoundingBox[n] # PointBox(ZeroVec)

\* C19: in a visibility pass, a node N the pass classifies as Inside has itself
\* and all its descendants marked visible and none of the descendants
\* classified; one classified as Outside has itself and all its descendants
\* marked invisible and none of the descendants classified; one classified as
\* Intersects is marked visible and each of its children is classified.
C19_ClassificationByCase ==
    lastOp.name = "updateVisibility" =>
        /\ classified[lastOp.node] # "NotClassified"
        /\ \A n \in Nodes :
              /\ classified[n] = "Inside" =>
                    /\ visible[n]
                    /\ \A d \in Descendants(subnodes, n) :
                          visible[d] /\ classified[d] = "NotClassified"
              /\ classified[n] = "Outside" =>
                    /\ ~visible[n]
                    /\ \A d \in Descendants(subnodes, n) :
                          ~visible[d] /\ classified[d] = "NotClassified"
              /\ classified[n] = "Intersects" =>
                    /\ visible[n]
                    /\ \A ch \in Range(subnodes[n]) : classified[ch] # "NotClassified"

\* C19 witness: a pass has classified a node below the root (the root
\* intersected the frustum) and has marked it and a descendant of it
\* invisible without classifying the descendant.
C19_Witness ==
    /\ lastOp.name = "updateVisibility"
    /\ \E n \in Nodes, d \in Nodes :
          /\ supernode[n] # Null
          /\ classified[supernode[n]] = "Intersects"
          /\ classified[n] = "Outside"
          /\ d \in Descendants(subnodes, n)
          /\ ~visible[n] /\ ~visible[d]
          /\ classified[d] = "NotClassified"

\* C20: after a visibility pass over a tree whose computed transforms are
\* current, the stored umbrella box of every node N, frustum-tested or not,
\* contains the computed bounding box of N and of each descendant of N.
C20_UmbrellaCoversSubtree ==
    (/\ lastOp.name = "updateVisibility"
     /\ ComputeTransformsRec(Canon, lastOp.node, Identity, Identity) = Canon) =>
        \A n \in Nodes :
            \A d \in {n} \cup Descendants(subnodes, n) :
                BoxContains(umbrellaBoundingBox[n], computedBoundingBox[d])

\* C11: in each frame tick (one updateSortKeys pass started at the root),
\* every action pending at the start of the tick on a node of the tree,
\* visible or not, is executed exactly once during that tick.
C11_EveryPendingActionRunsOnce ==
    [][lastOp'.name = "updateSortKeys" =>
          \A n \in {lastOp'.node} \cup Descendants(subnodes, lastOp'.node) :
              \A i \in DOMAIN actions[n] :
                  executed'[actions[n][i].id] = 1]_vars

\* C14: after a sort-key pass, every visible descendant of a node R that has
\* the hierarchical-rendering flag has the same distance from the camera as
\* R, wherever the camera is, whatever the boxes, geometries and flags of the
\* nodes are, and on every pass.
C14_HierarchySharesDistance ==
    (lastOp.name = "updateSortKeys" /\ ~aborted) =>
        \A r \in Nodes :
            hierarchicalRendering[r] =>
                \A d \in Descendants(subnodes, r) :
                    visible[d] =>
                        distanceFromCamera[d] = distanceFromCamera[r]

\* C14 witness: a pass has visited a descendant with a geometry of a flagged
\* node, and the distance the descendant was given is not the distance of
\* its own box.
C14_Witness ==
    /\ lastOp.name = "updateSortKeys"
    /\ \E r \in Nodes :
          /\ hierarchicalRendering[r]
          /\ \E d \in Descendants(subnodes, r) :
                /\ visible[d] /\ geometry[d]
                /\ distanceFromCamera[d] # NotVisited
                /\ distanceFromCamera[d] #
                       CenterDistance(computedBoundingBox[d], lastOp.arg)

\* the ancestors of a node
Ancestors(n) == { m \in Nodes : n \in Descendants(subnodes, m) }

\* C15: hitTest reports no node that is marked non-selectable, and reports a
\* selectable, visible, hit descendant of a non-selectable node.
C15_NonSelectableSkippedSubtreeTested ==
    lastOp.name = "hitTest" =>
        /\ \A n \in Nodes : ~selectable[n] => n \notin Range(hitResults)
        /\ \A d \in Nodes :
              (/\ \E m \in Ancestors(d) : ~selectable[m]
               /\ selectable[d] /\ visible[d] /\ geometry[d]
               /\ computedOpacity[d] > kHiddenOpacityThreshold
               /\ d \in lastOp.arg.triHit)
                  => d \in Range(hitResults)

RECURSIVE PreOrder(_)
RECURSIVE PreOrderOfAll(_)
\* the nodes of a subtree in depth-first pre-order
PreOrder(n) == <<n>> \o PreOrderOfAll(subnodes[n])
PreOrderOfAll(children) ==
    IF children = <<>> THEN <<>>
    ELSE PreOrder(Head(children)) \o PreOrderOfAll(Tail(children))

\* a node a bounds-only hit test has to report
BoundsHit(n) ==
    /\ selectable[n] /\ visible[n] /\ geometry[n]
    /\ computedOpacity[n] > kHiddenOpacityThreshold
    /\ n \in lastOp.arg.boxHit

\* C16: with boundsOnly = true and no high-accuracy flag set, hitTest returns
\* exactly one result for each node that is selectable, visible, has a
\* geometry, has a composite opacity above the hidden threshold and a
\* bounding box the ray meets, in depth-first pre-order; the list is empty
\* when the ray meets no bounding box.
C16_BoundsOnlyResults ==
    (/\ lastOp.name = "hitTest"
     /\ lastOp.arg.boundsOnly
     /\ \A n \in Nodes : ~highAccuracyGaze[n]) =>
        hitResults = SelectSeq(PreOrder(lastOp.node), BoundsHit)

\* C17: a node with the high-accuracy flag is reported only if the ray
\* passes the triangle test, also when the caller asked for boundsOnly.
C17_HighAccuracyNeedsTriangles ==
    lastOp.name = "hitTest" =>
        \A n \in Range(hitResults) :
            highAccuracyGaze[n] => n \in lastOp.arg.triHit

\* C17 witness: a bounds-only hit test has reported a node without the flag
\* on its box alone and has left out a selectable, visible node with the
\* flag whose box the ray meets and whose triangles it misses.
C17_Witness ==
    /\ lastOp.name = "hitTest"
    /\ lastOp.arg.boundsOnly
    /\ \E n \in Nodes, m \in Nodes :
          /\ highAccuracyGaze[n]
          /\ BoundsHit(n)
          /\ \A k \in Ancestors(n) : selectable[k]
          /\ n \notin lastOp.arg.triHit
          /\ n \notin Range(hitResults)
          /\ ~highAccuracyGaze[m]
          /\ m \notin lastOp.arg.triHit
          /\ m \in Range(hitResults)

RECURSIVE MaxOver(_, _, _)
\* the greatest of the furthest distances of the boxes of a set of nodes,
\* and zero for the empty set
MaxOver(ns, cam, acc) ==
    IF ns = {} THEN acc
    ELSE LET n == CHOOSE m \in ns : TRUE
         IN  MaxOver(ns \ {n}, cam,
                     Max(acc, FurthestDistance(computedBoundingBox[n], cam)))

\* C21: after a sort-key pass from the root, params.furthestDistanceFromCamera
\* is the maximum, over all visible nodes with a geometry (those inside
\* hierarchical-rendering subtrees included), of the furthest distance from
\* the camera to the node's bounding box.
C21_FurthestOverVisibleGeometry ==
    (lastOp.name = "updateSortKeys" /\ ~aborted) =>
        furthestDistanceFromCamera =
            MaxOver({ n \in Nodes : visible[n] /\ geometry[n] }, lastOp.arg, 0)

\* the onFinish calls made for a node
FinishCalls(n) == { i \in DOMAIN load.calls : load.calls[i].node = n }

\* C22: an FBX load call of any kind, synchronous or not, that was given an
\* onFinish calls it exactly once for the node it returned (and never for a
\* call without onFinish, or while the load is still in flight): with
\* success = true only when the children of the loaded subtree are attached
\* to the node, and with success = false, the node without children, when
\* the download or the parse failed.
C22_OnFinishOnce ==
    /\ \A n \in Nodes :
          Cardinality(FinishCalls(n)) = IF n \in load.finished THEN 1 ELSE 0
    /\ \A i \in DOMAIN load.calls :
          LET c == load.calls[i]
          IN  /\ c.success <=> load.fbx[c.node] # Null
              /\ c.success =>
                    Range(subnodes[load.fbx[c.node]]) \subseteq c.attached
              /\ ~c.success => c.attached = {}

\* C22 witness: an asynchronous load has run to its end and has
\* called onFinish with success = true, the loaded child attached.
C22_Witness ==
    /\ lastOp.name = "injectFBX"
    /\ \E i \in DOMAIN load.calls :
          /\ load.calls[i].success
          /\ load.calls[i].attached # {}
          /\ \A m \in load.calls[i].attached :
                supernode[m] = load.calls[i].node

\* the gesture events of a kind the last updateTouchPad call delivered
TouchEventsOf(type) ==
    { i \in DOMAIN touchEvents : touchEvents[i].type = type }

\* C23: a zero delta between the touch-down location and the current or the
\* release location is a no-op: a call that ran a gesture with start equal
\* to end delivers no scroll event and no swipe event.
C23_ZeroDeltaNoGesture ==
    (/\ lastOp.name = "updateTouchPad"
     /\ lastOp.arg.action \in {"TouchUp", "TouchDownMove"}
     /\ lastOp.arg.pos = touchDownLocationStart)
        => TouchEventsOf("scroll") = {} /\ TouchEventsOf("swipe") = {}

\* C24: the physics world of a scene holds exactly the current physics
\* bodies of the nodes attached to the scene: each of them is registered,
\* and nothing else is (no cleared body, no replaced body, no body of a
\* detached node).
C24_WorldHoldsCurrentBodies ==
    \A s \in Scenes, b \in Bodies :
        registered[s][b] >= 1 <=>
            \E n \in Nodes : physicsBody[n] = b /\ scene[n] = s

\* C25: one processActions call on a node (the one a sort-key pass makes on
\* the node it is started at) executes every action that was in the node's
\* list exactly once, and leaves in the list exactly the PerFrame or Timed
\* actions that repeat, in their original order.
C25_ProcessActionsOnce ==
    [][lastOp'.name = "updateSortKeys" =>
          LET n == lastOp'.node
          IN  /\ ~aborted'
              /\ \A i \in DOMAIN actions[n] : executed'[actions[n][i].id] = 1
              /\ actions'[n] = SelectSeq(actions[n], StaysPending)]_vars

AtomicSetters == {"setPositionAtomic", "setRotationAtomic", "setScaleAtomic"}

\* C26: computeTransformsAtomic stores the world transform, position,
\* rotation and bounding box that computeTransforms would store for the
\* node, with or without pivots and geometry, whenever the node's atomic
\* local cells equal its canonical fields and the parent's atomic world
\* transform and rotation equal the parent's canonical ones.
C26_AtomicEqualsCanonical ==
    LET n == lastOp.node
        p == supernode[n]
        pT == IF p # Null THEN computedTransform[p] ELSE Identity
        pR == IF p # Null THEN computedRotation[p] ELSE Identity
        c == DoComputeTransform(Canon, n, pT)
    IN  (/\ lastOp.name \in AtomicSetters
         /\ lastPosition[n] = position[n]
         /\ lastRotation[n] = rotation[n]
         /\ lastScale[n] = scale[n]
         /\ p # Null => /\ lastComputedTransform[p] = computedTransform[p]
                        /\ lastComputedRotation[p] = computedRotation[p])
            => /\ lastComputedTransform[n] = c.ct[n]
               /\ lastComputedPosition[n] = c.cp[n]
               /\ lastComputedBoundingBox[n] = c.cb[n]
               /\ lastComputedRotation[n] =
                      Mul(pR, RotationMatrix(rotation[n]))

\* C27: when two contexts have run atomic setters on the same node at the
\* same time and all the calls have returned, the node's atomic world cells
\* are the ones computed from its atomic local cells (and the parent's
\* world cells), under every interleaving.
C27_RacersLeaveConsistentCells ==
    (/\ \A t \in Racers : racers[t].th.pc = "idle" /\ racers[t].calls > 0
     /\ racers[1].th.node = racers[2].th.node)
        => LET n == racers[1].th.node
               pw == ParentWorldAtomic(Atomic, n)
               M == Mul(pw[1], Mul(TranslateMatrix(lastPosition[n]),
                                   Mul(RotationMatrix(lastRotation[n]),
                                       ScaleMatrix(lastScale[n]))))
           IN  /\ lastComputedTransform[n] = M
               /\ lastComputedPosition[n] = TranslationOf(M)
               /\ lastComputedBoundingBox[n] = WorldBox(n, M)
               /\ lastComputedRotation[n] =
                      Mul(pw[2], RotationMatrix(lastRotation[n]))

\* C28: setWorldTransform on a node without a parent is safe: it does not
\* dereference the absent parent and the call returns (the process does not
\* fault).
C28_NoParentIsSafe ==
    (lastOp.name = "setWorldTransform" /\ supernode[lastOp.node] = Null)
        => ~lastOp.arg.nullDereference /\ ~aborted

\* C29: the high-accuracy flag changes only the test of the node that has
\* it: in a hit test called with boundsOnly = true, a node without the flag
\* that the test reaches (all its ancestors selectable) is reported on its
\* bounding box alone, whether or not an ancestor has the flag.
C29_FlagIsPerNode ==
    (lastOp.name = "hitTest" /\ lastOp.arg.boundsOnly) =>
        \A d \in {lastOp.node} \cup Descendants(subnodes, lastOp.node) :
            (/\ ~highAccuracyGaze[d]
             /\ BoundsHit(d)
             /\ \A k \in Ancestors(d) : selectable[k])
                => d \in Range(hitResults)

\* C30: after any sequence of addChildNode, removeFromParentNode and
\* removeAllChildren calls no node is reachable from itself through child
\* lists, and no recursive pass has failed to return.
C30_GraphAcyclic ==
    /\ \A n \in Nodes : n \notin Descendants(subnodes, n)
    /\ ~aborted

====
